---- MODULE Spec2Model ----
(***************************************************************************)
(* Block ingestion pipeline of the chain service (chain_service.rs) and    *)
(* the two-tier header index (header_map/).                                *)
(*                                                                         *)
(* Pipeline: caller -> process_block channel -> ChainService (intake)      *)
(*   -> lonely_block channel -> ConsumeOrphan (resolver, orphan pool)      *)
(*   -> unverified channel -> ConsumeUnverifiedBlocks (consumer) -> store. *)
(* The intake stage, the channel wiring and the shutdown sequence are      *)
(* taken from chain_service.rs.  ConsumeOrphan, OrphanBlockPool and        *)
(* ConsumeUnverifiedBlocks are not among the source files; they follow the *)
(* component design (sections 4.B, 4.F, 4.G, 5, 7).                        *)
(***************************************************************************)
EXTENDS Integers, Sequences, FiniteSets, TLC

\* ------------------------------------------------------------------ bounds

\* Blocks 1..MaxBlocks may be submitted; block 0 is genesis, already stored.
MaxBlocks == 4

\* Blocks that the intake-focused specification submits (with every switch,
\* origin and validity combination).
MaxIntakeBlocks == 2

\* Blocks the sequential caller submits.
MaxCallBlocks == 3

\* Blocks that the service-level specification submits, in order: enough
\* to fill both inter-stage channels and both workers' hands.
MaxServiceBlocks == 6

\* Blocks an orphan pool is filled from, and the entries it holds, when
\* remove_blocks_by_parent is checked on its own.
MaxPoolBlocks == 8

MaxPoolLen == 4

\* ckb_constant::sync::BLOCK_DOWNLOAD_WINDOW, scaled down.
BLOCK_DOWNLOAD_WINDOW == 1

\* Header hashes 1..MaxHashes are inserted into the header index.
MaxHashes == 2

\* The header index's memory budget in bytes (HeaderMap::new's memory_limit).
MemoryLimit == 152

\* HeaderMap::new is called with a memory_limit of 0 .. MaxMemoryLimit bytes
\* (and with the limits around the warning threshold).
MaxMemoryLimit == 310

\* The Close syscall: file descriptors 0 .. MaxFd, VM ids 0 .. MaxVmId, a
\* message box of at most MaxMessages messages; the machine's cycle counter
\* is an unsigned integer of largest value MaxCycleCount, and a yield is
\* charged YieldCyclesBase cycles (SPAWN_YIELD_CYCLES_BASE, scaled).
MaxFd == 1

MaxVmId == 1

MaxMessages == 3

MaxCycleCount == 5

YieldCyclesBase == 2

\* --------------------------------------------------------------- constants

\* Record fields take the values 0, 256^k - 1 and 256^k for k up to this
\* many bytes, so that every byte position of a field carries and borrows.
MaxCodecBytes == 1

\* DEFAULT_MAX_VERIFY_TRANSACTIONS (100 in the source), scaled down.
DEFAULT_MAX_VERIFY_TRANSACTIONS == 2

\* A block carries up to MaxTxs transactions after its cellbase.
MaxTxs == 2

\* A transaction verification costs 1..MaxTxCycles cycles.
MaxTxCycles == 2

\* consensus.max_block_cycles, scaled down.
MaxBlockCycles == 2

\* Blocks numbered 0..MaxNumber are checked for two-phase commit.
MaxNumber == 3

\* consensus.tx_proposal_window(): closest and farthest, scaled down.
ProposalClosest == 1

ProposalFarthest == 2

\* consensus.finalization_delay_length(), scaled down.
FinalizationDelayLength == 1

\* Rewards and output capacities are 0..MaxCapacity.
MaxCapacity == 2

\* Hash values of the block extension check.
MaxRoots == 2

\* Extra fields a block may carry.
MaxExtraFields == 2

\* HeaderIndexView size is 152 bytes.
ITEM_BYTES_SIZE == 152

ORPHAN_BLOCK_SIZE_3W == BLOCK_DOWNLOAD_WINDOW * 3

ORPHAN_BLOCK_SIZE == BLOCK_DOWNLOAD_WINDOW * 2

\* Mutant: the channel to the resolver is twice as large.
LonelyChannelBound_Double == BLOCK_DOWNLOAD_WINDOW * 2

LonelyChannelBound == BLOCK_DOWNLOAD_WINDOW

ProcessChannelBound == BLOCK_DOWNLOAD_WINDOW

UnverifiedChannelBound == BLOCK_DOWNLOAD_WINDOW * 3

TruncateChannelBound == 1

\* ------------------------------------------------------------ block universe

Genesis == 0

Blocks == 1 .. MaxBlocks

\* The block DAG: a binary tree rooted at genesis (1 -> 0, 2 -> 1, 3 -> 1,
\* 4 -> 2, ...), so that chains, siblings and side branches all occur.
Parent(b) == b \div 2

RECURSIVE Number(_)
Number(b) == IF b = Genesis THEN 0 ELSE 1 + Number(Parent(b))

\* Per-block difficulty: odd non-root blocks are heavier, so that a shorter
\* branch can carry more total difficulty than a longer one.
Difficulty(b) == IF b > 1 /\ b % 2 = 1 THEN 2 ELSE 1

RECURSIVE TotalDifficulty(_)
TotalDifficulty(b) ==
    IF b = Genesis THEN 0 ELSE Difficulty(b) + TotalDifficulty(Parent(b))

RECURSIVE Ancestors(_)
Ancestors(b) == IF b = Genesis THEN {Genesis} ELSE {b} \cup Ancestors(Parent(b))

Range(s) == {s[i] : i \in 1 .. Len(s)}

\* Switch: None, Some(switch with DISABLE_NON_CONTEXTUAL), Some(other switch).
Switches == {"none", "disable_non_contextual", "other"}

\* What the verifiers would say about a block: well-formed and valid, failing
\* the non-contextual checks, or failing a contextual check.
Kinds == {"ok", "malformed", "ctx_invalid"}

NoAttr == [switch |-> "none", peer |-> FALSE, kind |-> "ok", accepted |-> FALSE]

VARIABLES
    attr,               \* LonelyBlock fields of each submitted block, and
                        \* whether the process_block channel accepted it
    pooled,             \* blocks that have been inserted into the orphan pool
    process_block_ch,   \* channel::bounded(BLOCK_DOWNLOAD_WINDOW) of requests
    intake,             \* ChainService worker: [pc, cur]
    lonely_block_ch,    \* channel::bounded(BLOCK_DOWNLOAD_WINDOW)
    lonely_rx_alive,    \* the resolver still holds lonely_block_rx
    orphan,             \* orphan pool, in insertion order
    resolver,           \* ConsumeOrphan worker: [pc, pending]
    unverified_ch,      \* channel::bounded(3 * BLOCK_DOWNLOAD_WINDOW)
    unverified_tip,     \* shared.unverified_tip
    best_tip,           \* snapshot tip
    commit_log,         \* blocks committed to the store, in commit order
    consumer_pc,        \* ConsumeUnverifiedBlocks worker
    callbacks,          \* per block: the results its callback was invoked with
    reports,            \* verify_failed_blocks_tx: <<block, error>> sent
    exit_signal,        \* the process-wide exit signal was raised
    svc_pc              \* ChainService thread after start_process_block

VARIABLES
    hot,                \* MemoryMap: LinkedHashMap entries <<hash, inner>>,
                        \* least recently used first
    cold,               \* HeedBackend db: hash -> stored bytes (<<>>: no entry)
    empty_flag,         \* HeedBackend.empty_flag
    mover,              \* the background task in limit_memory: [pc, values]
    client,             \* a caller of the index: [pc, op, hash, res]
    expect              \* per hash: [last, view], the last completed change
                        \* ("never", "inserted", "removed") and the view
                        \* inserted

hmVars == <<hot, cold, empty_flag, mover, client, expect>>

chainVars == <<attr, pooled, process_block_ch, intake,
               lonely_block_ch, lonely_rx_alive, orphan, resolver,
               unverified_ch, unverified_tip, best_tip, commit_log,
               consumer_pc, callbacks, reports, exit_signal, svc_pc>>

VARIABLES
    truncate_ch         \* channel::bounded(1) of truncate requests (targets)

truncateVars == <<truncate_ch>>

VARIABLES
    obp                 \* one OrphanBlockPool::remove_blocks_by_parent call:
                        \* [pc, pool, parent_hash, removed, left]

obpVars == <<obp>>

VARIABLES
    codec               \* one encode/decode of a header-index record:
                        \* [pc, inner, bytes, out]

codecVars == <<codec>>

VARIABLES
    vq_inner,           \* VerifyQueue.inner: per proposal_short_id, None
                        \* (<<>>) or the VerifyEntry held (<<entry>>)
    vq_last,            \* the last call on the queue: [op, arg, remote,
                        \* ret, tick]; tick flips with every call
    vq_panicked         \* a call on the queue panicked

vqVars == <<vq_inner, vq_last, vq_panicked>>

VARIABLES
    txs_verify_cache,   \* TxVerificationCache: per tx hash, None (<<>>) or
                        \* <<CacheEntry>>
    cache_lru,          \* the cache's keys, least recently used first
    btv,                \* one BlockTxsVerifier::verify call: [pc, cellbase,
                        \* resolved, cache_before, lookups, keys, fetched,
                        \* outcome, result]
    cache_tasks         \* update_cache tasks spawned and not yet run:
                        \* each the list of <<hash, Completed>> to put

btvVars == <<txs_verify_cache, cache_lru, btv, cache_tasks>>

VARIABLES
    cbv                 \* one ContextualBlockVerifier::verify call: [pc,
                        \* switch, parent, fails, ran, skip_script, result]

cbvVars == <<cbv>>

VARIABLES
    tpc                 \* one TwoPhaseCommitVerifier::verify call: [pc,
                        \* number, proposals, uncle_proposals, committed,
                        \* no_hash, no_header, result, walked, ids,
                        \* underflow]

tpcVars == <<tpc>>

VARIABLES
    rwd                 \* one RewardVerifier::verify call: [pc,
                        \* parent_number, reward, outputs, result]

rwdVars == <<rwd>>

VARIABLES
    ext                 \* one BlockExtensionVerifier::verify call: [pc,
                        \* extra_fields_count, extension, lc_activate,
                        \* tc_activate, chain_root, cells_root,
                        \* calc_extra_hash, extra_hash, result]

extVars == <<ext>>

VARIABLES
    hmnew               \* one HeaderMap::new call: [pc, memory_limit, warned,
                        \* size_limit, task]

hmnewVars == <<hmnew>>

VARIABLES
    calls,              \* per block, the Request::call of its submit: "none",
                        \* "waiting" (for the response), "responded"
                        \* (returned Some), "gone" (returned None)
    blocking            \* per block, what blocking_process_lonely_block
                        \* returned: <<>> (not yet) or <<result>>

callVars == <<calls, blocking>>

VARIABLES
    sc,                 \* the machine of one VM at its last ecall on the Close
                        \* handler: [id, a7, a0, cycles, ret]
    message_box         \* Arc<Mutex<Vec<Message>>> shared with the scheduler

scVars == <<sc, message_box>>

\* What the steps of one component leave alone: the other components.
\* The other components but the callers' side of the pipeline.
offIntakeVars ==
    <<hmVars, codecVars, vqVars, btvVars, cbvVars, tpcVars, rwdVars, extVars,
      truncateVars, obpVars,
      hmnewVars,
      scVars>>

offChainVars ==
    <<hmVars, codecVars, vqVars, btvVars, cbvVars, tpcVars, rwdVars, extVars,
      truncateVars, obpVars,
      hmnewVars,
      callVars,
      scVars>>

offIndexVars ==
    <<chainVars, codecVars, vqVars, btvVars, cbvVars, tpcVars, rwdVars, extVars,
      truncateVars, obpVars,
      hmnewVars,
      callVars,
      scVars>>

offCodecVars ==
    <<chainVars, hmVars, vqVars, btvVars, cbvVars, tpcVars, rwdVars, extVars,
      truncateVars, obpVars,
      hmnewVars,
      callVars,
      scVars>>

offQueueVars ==
    <<chainVars, hmVars, codecVars, btvVars, cbvVars, tpcVars, rwdVars, extVars,
      truncateVars, obpVars,
      hmnewVars,
      callVars,
      scVars>>

offTxsVars ==
    <<chainVars, hmVars, codecVars, vqVars, cbvVars, tpcVars, rwdVars, extVars,
      truncateVars, obpVars,
      hmnewVars,
      callVars,
      scVars>>

offVerifierVars ==
    <<chainVars, hmVars, codecVars, vqVars, btvVars, tpcVars, rwdVars, extVars,
      truncateVars, obpVars,
      hmnewVars,
      callVars,
      scVars>>

offCommitVars ==
    <<chainVars, hmVars, codecVars, vqVars, btvVars, cbvVars, rwdVars, extVars,
      truncateVars, obpVars,
      hmnewVars,
      callVars,
      scVars>>

offRewardVars ==
    <<chainVars, hmVars, codecVars, vqVars, btvVars, cbvVars, tpcVars, extVars,
      truncateVars, obpVars,
      hmnewVars,
      callVars,
      scVars>>

offPoolVars ==
    <<chainVars, hmVars, codecVars, vqVars, btvVars, cbvVars, tpcVars, rwdVars,
      extVars, truncateVars,
      hmnewVars,
      callVars,
      scVars>>

offExtensionVars ==
    <<chainVars, hmVars, codecVars, vqVars, btvVars, cbvVars, tpcVars, rwdVars,
      truncateVars, obpVars,
      hmnewVars,
      callVars,
      scVars>>

offCloseVars ==
    <<chainVars, hmVars, codecVars, vqVars, btvVars, cbvVars, tpcVars, rwdVars,
      extVars, truncateVars, obpVars, hmnewVars, callVars>>

offNewVars ==
    <<chainVars, hmVars, codecVars, vqVars, btvVars, cbvVars, tpcVars, rwdVars,
      extVars, truncateVars, obpVars,
      callVars,
      scVars>>

Store == {Genesis} \cup Range(commit_log)

\* ---------------------------------------------------------------- helpers

\* LonelyBlockWithCallback::execute_callback: the callback is consumed.
execute_callback(cbs, b, result) == [cbs EXCEPT ![b] = Append(@, result)]

\* tell_synchronizer_to_punish_the_bad_peer: a report is sent when the block
\* carries an origin (peer_id, message_size).
tell_synchronizer_to_punish_the_bad_peer(rs, b, err) ==
    IF attr[b].peer THEN rs \cup {<<b, err>>} ELSE rs

\* BlockVerifier + NonContextualBlockTxsVerifier.
non_contextual_verify(b) == attr[b].kind # "malformed"

\* The condition of chain_service.rs:342-343.
RunsNonContextual_Always(b) == TRUE

RunsNonContextual(b) ==
    \/ attr[b].switch = "none"
    \/ attr[b].switch # "none" /\ attr[b].switch # "disable_non_contextual"

\* ------------------------------------------------------------- controller

\* Mutant: the response is sent as soon as the request is received.
responder_send_Early(cs, b, handled) == [cs EXCEPT ![b] = "responded"]

\* start_process_block, line 300: responder.send(()) once
\* asynchronous_process_block has returned; Request::call, waiting on the
\* response, then returns Some.
responder_send(cs, b, handled) ==
    IF handled THEN [cs EXCEPT ![b] = "responded"] ELSE cs

\* The requests dropped with their responders: Request::call returns None.
responders_dropped(cs, dropped) ==
    [b \in DOMAIN cs |-> IF b \in dropped THEN "gone" ELSE cs[b]]

\* ChainController::asynchronous_process_lonely_block_with_callback:
\* Request::call sends the request into the bounded process_block channel
\* (the caller waits while it is full) and waits for the response.  When
\* the service has gone the call returns None and the block, with its
\* callback, is dropped.
Submit(b, sw, peer, kind) ==
    /\ ~attr[b].accepted
    /\ IF intake.pc = "stopped"
       THEN /\ calls' = responders_dropped(calls, {b})
            /\ UNCHANGED <<process_block_ch, attr>>
       ELSE /\ Len(process_block_ch) < ProcessChannelBound
            /\ process_block_ch' = Append(process_block_ch, b)
            /\ attr' = [attr EXCEPT ![b] = [switch |-> sw, peer |-> peer,
                                            kind |-> kind, accepted |-> TRUE]]
            /\ calls' = [calls EXCEPT ![b] = "waiting"]
    /\ UNCHANGED <<offIntakeVars, blocking, pooled, intake, lonely_block_ch, lonely_rx_alive, orphan,
                   resolver, unverified_ch, unverified_tip, best_tip,
                   commit_log, consumer_pc, callbacks, reports, exit_signal,
                   svc_pc>>

\* The process-wide exit signal (new_crossbeam_exit_rx).
ExitSignal ==
    /\ ~exit_signal
    /\ exit_signal' = TRUE
    /\ UNCHANGED <<offChainVars, attr, pooled, process_block_ch, intake, lonely_block_ch,
                   lonely_rx_alive, orphan, resolver, unverified_ch,
                   unverified_tip, best_tip, commit_log, consumer_pc,
                   callbacks, reports, svc_pc>>

\* ChainController::truncate: Request::call sends the target into the
\* bounded truncate channel (the caller waits while it is full).  When the
\* consumer has gone the call returns an error and nothing is queued.
TruncateCall(target) ==
    /\ consumer_pc = "run"
    /\ Len(truncate_ch) < TruncateChannelBound
    /\ truncate_ch' = Append(truncate_ch, target)
    /\ UNCHANGED <<chainVars, hmVars, codecVars, vqVars, btvVars, cbvVars,
                   tpcVars, rwdVars, extVars, obpVars, hmnewVars, callVars, scVars>>

\* ------------------------------------------------------------ intake (E)

\* Mutant: the failure branch reports and fires the callback but does not
\* return, so the rejected block is forwarded as well.
IntakeVerify_NoReturn(b) ==
    IF RunsNonContextual(b) /\ ~non_contextual_verify(b)
    THEN /\ reports' = tell_synchronizer_to_punish_the_bad_peer(reports, b, "ncv_err")
         /\ callbacks' = execute_callback(callbacks, b, "ncv_err")
         /\ intake' = [pc |-> "send", cur |-> b]
    ELSE /\ intake' = [pc |-> "send", cur |-> b]
         /\ UNCHANGED <<reports, callbacks>>

\* Mutant: the failure branch drops the block without reporting the peer.
IntakeVerify_NoReport(b) ==
    IF RunsNonContextual(b) /\ ~non_contextual_verify(b)
    THEN /\ UNCHANGED reports
         /\ callbacks' = execute_callback(callbacks, b, "ncv_err")
         /\ intake' = [pc |-> "recv", cur |-> Genesis]
    ELSE /\ intake' = [pc |-> "send", cur |-> b]
         /\ UNCHANGED <<reports, callbacks>>

\* asynchronous_process_block up to the send: the non-contextual checks and
\* the failure branch (report, callback, return).
IntakeVerify(b) ==
    IF RunsNonContextual(b) /\ ~non_contextual_verify(b)
    THEN /\ reports' = tell_synchronizer_to_punish_the_bad_peer(reports, b, "ncv_err")
         /\ callbacks' = execute_callback(callbacks, b, "ncv_err")
         /\ intake' = [pc |-> "recv", cur |-> Genesis]
    ELSE /\ intake' = [pc |-> "send", cur |-> b]
         /\ UNCHANGED <<reports, callbacks>>

\* start_process_block, recv(process_block_rx) arm.
IntakeRecv ==
    /\ intake.pc = "recv"
    /\ process_block_ch # <<>>
    /\ process_block_ch' = Tail(process_block_ch)
    /\ IntakeVerify(Head(process_block_ch))
    /\ calls' = responder_send(calls, Head(process_block_ch), intake'.pc # "send")
    /\ UNCHANGED <<offIntakeVars, blocking, attr, pooled, lonely_block_ch, lonely_rx_alive, orphan,
                   resolver, unverified_ch, unverified_tip, best_tip,
                   commit_log, consumer_pc, exit_signal, svc_pc>>

\* Mutant: a failed send ends the intake loop.
IntakeSendFailed_Stops(b) ==
    /\ reports' = tell_synchronizer_to_punish_the_bad_peer(reports, b, "system_err")
    /\ callbacks' = execute_callback(callbacks, b, "system_err")
    /\ intake' = [pc |-> "stopped", cur |-> Genesis]

\* The Err(SendError(lonely_block)) arm: report, callback with a System
\* error, return to the loop.
IntakeSendFailed(b) ==
    /\ reports' = tell_synchronizer_to_punish_the_bad_peer(reports, b, "system_err")
    /\ callbacks' = execute_callback(callbacks, b, "system_err")
    /\ intake' = [pc |-> "recv", cur |-> Genesis]

\* self.lonely_block_tx.send(lonely_block): blocks while the channel is
\* full, fails when the receiver is gone.
IntakeSend ==
    /\ intake.pc = "send"
    /\ IF ~lonely_rx_alive
       THEN /\ IntakeSendFailed(intake.cur)
            /\ UNCHANGED lonely_block_ch
       ELSE /\ Len(lonely_block_ch) < LonelyChannelBound
            /\ lonely_block_ch' = Append(lonely_block_ch, intake.cur)
            /\ intake' = [pc |-> "recv", cur |-> Genesis]
            /\ UNCHANGED <<reports, callbacks>>
    /\ calls' = responder_send(calls, intake.cur, TRUE)
    /\ UNCHANGED <<offIntakeVars, blocking, attr, pooled, process_block_ch, lonely_rx_alive, orphan,
                   resolver, unverified_ch, unverified_tip, best_tip,
                   commit_log, consumer_pc, exit_signal, svc_pc>>

\* Mutant: the loop breaks but the thread never signals the resolver.
IntakeExit_NoSignal ==
    /\ intake.pc = "recv"
    /\ exit_signal
    /\ intake' = [pc |-> "stopped", cur |-> Genesis]
    /\ process_block_ch' = <<>>
    /\ calls' = responders_dropped(calls, Range(process_block_ch))
    /\ UNCHANGED <<offIntakeVars, blocking, attr, pooled, lonely_block_ch, lonely_rx_alive, orphan,
                   resolver, unverified_ch, unverified_tip, best_tip,
                   commit_log, consumer_pc, callbacks, reports, exit_signal,
                   svc_pc>>

\* start_process_block, recv(signal_receiver) arm: the loop breaks, self is
\* dropped (process_block_rx with the requests still queued in it, and
\* lonely_block_tx), and the thread goes on to stop the resolver.
IntakeExit ==
    /\ intake.pc = "recv"
    /\ exit_signal
    /\ intake' = [pc |-> "stopped", cur |-> Genesis]
    /\ process_block_ch' = <<>>
    /\ svc_pc' = "join_resolver"
    /\ calls' = responders_dropped(calls, Range(process_block_ch))
    /\ UNCHANGED <<offIntakeVars, blocking, attr, pooled, lonely_block_ch, lonely_rx_alive, orphan,
                   resolver, unverified_ch, unverified_tip, best_tip,
                   commit_log, consumer_pc, callbacks, reports, exit_signal>>

\* ----------------------------------------------------------- orphan pool (B)

\* The pooled children of h, in insertion order (the parent_hash ->
\* {child hashes} index).
Children(pool, h) ==
    LET IsChild(x) == Parent(x) = h IN SelectSeq(pool, IsChild)

RECURSIVE BreadthFirst(_, _, _)
BreadthFirst(pool, frontier, acc) ==
    IF frontier = <<>>
    THEN acc
    ELSE BreadthFirst(pool,
                      Tail(frontier) \o Children(pool, Head(frontier)),
                      Append(acc, Head(frontier)))

\* Mutant: only the children are returned.
remove_blocks_by_parent_ChildrenOnly(pool, parent_hash) ==
    Children(pool, parent_hash)

\* OrphanBlockPool::remove_blocks_by_parent: the descendants keyed off
\* parent_hash, breadth first.
remove_blocks_by_parent(pool, parent_hash) ==
    BreadthFirst(pool, Children(pool, parent_hash), <<>>)

Without(pool, gone) ==
    LET Stays(x) == x \notin gone IN SelectSeq(pool, Stays)

\* The entries evicted after an insertion: the oldest, until size <= capacity.
Evicted(pool) ==
    IF Len(pool) > ORPHAN_BLOCK_SIZE
    THEN SubSeq(pool, 1, Len(pool) - ORPHAN_BLOCK_SIZE)
    ELSE <<>>

\* Mutant: the blocks are dropped without their callbacks being fired.
FireAll_Silent(cbs, blocks, result) == cbs

RECURSIVE FireAll(_, _, _)
FireAll(cbs, blocks, result) ==
    IF blocks = <<>>
    THEN cbs
    ELSE FireAll(execute_callback(cbs, Head(blocks), result), Tail(blocks), result)

\* One call of remove_blocks_by_parent on a pool of any content.
PoolBlocks == 1 .. MaxPoolBlocks

\* Pools: up to MaxPoolLen distinct blocks, in any insertion order.
RECURSIVE PoolsOfLen(_)
PoolsOfLen(n) ==
    IF n = 0 THEN {<<>>}
    ELSE UNION {{Append(pool, b) : b \in PoolBlocks \ Range(pool)} :
                   pool \in PoolsOfLen(n - 1)}

Pools == UNION {PoolsOfLen(n) : n \in 0 .. MaxPoolLen}

ObpCall(pc, pool, parent_hash) ==
    [pc |-> pc, pool |-> pool, parent_hash |-> parent_hash,
     removed |-> <<>>, left |-> pool]

ObpRemove ==
    /\ obp.pc = "start"
    /\ LET found == remove_blocks_by_parent(obp.pool, obp.parent_hash) IN
       obp' = [obp EXCEPT !.pc = "done", !.removed = found,
                          !.left = Without(obp.pool, Range(found))]
    /\ UNCHANGED offPoolVars

ObpIdle == obp = ObpCall("idle", <<>>, Genesis)

ObpInit ==
    \E pool \in Pools, parent_hash \in {Genesis} \cup PoolBlocks :
        obp = ObpCall("start", pool, parent_hash)

NextPool ==
    \/ ObpRemove

\* ----------------------------------------------------------- resolver (F)

\* Mutant: only the store is consulted.
ParentKnown_StoreOnly(b) == Parent(b) \in Store

\* The parent is in the store or in the unverified-tip chain.
ParentKnown(b) ==
    \/ Parent(b) \in Store
    \/ Parent(b) \in Ancestors(unverified_tip)

\* Per incoming LonelyBlock: buffer it in the orphan pool (evicting the
\* oldest entries over capacity, whose callbacks get a transient failure),
\* or resolve it together with its pooled descendants.
ResolverRecv ==
    /\ resolver.pc = "recv"
    /\ lonely_rx_alive
    /\ lonely_block_ch # <<>>
    /\ lonely_block_ch' = Tail(lonely_block_ch)
    /\ LET b == Head(lonely_block_ch) IN
       IF ParentKnown(b)
       THEN LET found == remove_blocks_by_parent(orphan, b) IN
            /\ resolver' = [pc |-> "send", pending |-> <<b>> \o found]
            /\ orphan' = Without(orphan, Range(found))
            /\ UNCHANGED <<callbacks, pooled>>
       ELSE LET pool == Append(orphan, b) IN
            /\ orphan' = Without(pool, Range(Evicted(pool)))
            /\ callbacks' = FireAll(callbacks, Evicted(pool), "transient")
            /\ pooled' = pooled \cup {b}
            /\ UNCHANGED resolver
    /\ UNCHANGED <<offChainVars, attr, process_block_ch, intake, lonely_rx_alive,
                   unverified_ch, unverified_tip, best_tip, commit_log,
                   consumer_pc, reports, exit_signal, svc_pc>>

\* A bounded FIFO channel's send, once there is room.
ChannelSend(ch, x) == Append(ch, x)

\* The blocking send of the next resolved block to the consumer channel.
ResolverSend ==
    /\ resolver.pc = "send"
    /\ Len(unverified_ch) < UnverifiedChannelBound
    /\ unverified_ch' = ChannelSend(unverified_ch, Head(resolver.pending))
    /\ resolver' = [resolver EXCEPT !.pc = "tip"]
    /\ UNCHANGED <<offChainVars, attr, pooled, process_block_ch, intake, lonely_block_ch,
                   lonely_rx_alive, orphan, unverified_tip, best_tip,
                   commit_log, consumer_pc, callbacks, reports, exit_signal,
                   svc_pc>>

\* After the successful send, unverified_tip advances to the block sent.
ResolverSetTip ==
    /\ resolver.pc = "tip"
    /\ unverified_tip' = Head(resolver.pending)
    /\ resolver' = [pc |-> IF Len(resolver.pending) > 1 THEN "send" ELSE "recv",
                    pending |-> Tail(resolver.pending)]
    /\ UNCHANGED <<offChainVars, attr, pooled, process_block_ch, intake, lonely_block_ch,
                   lonely_rx_alive, orphan, unverified_ch, best_tip,
                   commit_log, consumer_pc, callbacks, reports, exit_signal,
                   svc_pc>>

\* Shutdown: the resolver drains its inbox, then terminates.
ResolverStop ==
    /\ resolver.pc = "recv"
    /\ lonely_rx_alive
    /\ svc_pc = "join_resolver"
    /\ lonely_block_ch = <<>>
    /\ resolver' = [pc |-> "stopped", pending |-> <<>>]
    /\ lonely_rx_alive' = FALSE
    /\ UNCHANGED <<offChainVars, attr, pooled, process_block_ch, intake, lonely_block_ch,
                   orphan, unverified_ch, unverified_tip, best_tip, commit_log,
                   consumer_pc, callbacks, reports, exit_signal, svc_pc>>

\* The resolver thread ends abnormally while the service runs: its receiver
\* is dropped with whatever the channel and the worker still hold.  This is
\* the case the intake's SendError arm handles.
ResolverGone ==
    /\ lonely_rx_alive
    /\ intake.pc # "stopped"
    /\ lonely_rx_alive' = FALSE
    /\ resolver' = [pc |-> "stopped", pending |-> <<>>]
    /\ lonely_block_ch' = <<>>
    /\ UNCHANGED <<offChainVars, attr, pooled, process_block_ch, intake, orphan,
                   unverified_ch, unverified_tip, best_tip, commit_log,
                   consumer_pc, callbacks, reports, exit_signal, svc_pc>>

\* ----------------------------------------------------------- consumer (G)

\* Mutant: the verifier does not need the parent to be in the store.
ContextualVerify_IgnoresParent(b) == attr[b].kind # "ctx_invalid"

\* The contextual block verifier needs the parent header from the store.
ContextualVerify(b) == attr[b].kind # "ctx_invalid" /\ Parent(b) \in Store

ContextualError(b) ==
    IF Parent(b) \in Store THEN "ctx_err" ELSE "invalid_descendant"

\* Mutant: a branch of equal total difficulty takes over as well.
NextBestTip_OnTie(b) ==
    IF Parent(b) = best_tip \/ TotalDifficulty(b) >= TotalDifficulty(best_tip)
    THEN b
    ELSE best_tip

\* Extend or reorg advance best_tip; a side-branch accept does not.
NextBestTip(b) ==
    IF Parent(b) = best_tip \/ TotalDifficulty(b) > TotalDifficulty(best_tip)
    THEN b
    ELSE best_tip

\* Per UnverifiedBlock, in receive order: verify; on failure reject it,
\* report the peer and reject its pooled descendants; on success commit,
\* move best_tip and fire the callback.
ConsumerStep ==
    /\ consumer_pc = "run"
    /\ unverified_ch # <<>>
    /\ unverified_ch' = Tail(unverified_ch)
    /\ LET b == Head(unverified_ch) IN
       IF ContextualVerify(b)
       THEN /\ commit_log' = Append(commit_log, b)
            /\ best_tip' = NextBestTip(b)
            /\ callbacks' = execute_callback(callbacks, b, "ok")
            /\ UNCHANGED <<orphan, reports>>
       ELSE LET found == remove_blocks_by_parent(orphan, b) IN
            /\ reports' = tell_synchronizer_to_punish_the_bad_peer(
                              reports, b, ContextualError(b))
            /\ callbacks' = FireAll(
                              execute_callback(callbacks, b, ContextualError(b)),
                              found, "invalid_descendant")
            /\ orphan' = Without(orphan, Range(found))
            /\ UNCHANGED <<commit_log, best_tip>>
    /\ UNCHANGED <<offChainVars, attr, pooled, process_block_ch, intake, lonely_block_ch,
                   lonely_rx_alive, resolver, unverified_tip, consumer_pc,
                   exit_signal, svc_pc>>

\* Shutdown: the consumer drains its queue, then terminates.
ConsumerStop ==
    /\ consumer_pc = "run"
    /\ svc_pc = "join_consumer"
    /\ unverified_ch = <<>>
    /\ consumer_pc' = "stopped"
    /\ UNCHANGED <<offChainVars, attr, pooled, process_block_ch, intake, lonely_block_ch,
                   lonely_rx_alive, orphan, resolver, unverified_ch,
                   unverified_tip, best_tip, commit_log, callbacks, reports,
                   exit_signal, svc_pc>>

\* A truncate request: the active chain is rolled back, block by block, to
\* the target when the target lies on it; any other target is an error and
\* changes nothing.  Disconnected blocks stay in the store.
ConsumerTruncate ==
    /\ consumer_pc = "run"
    /\ truncate_ch # <<>>
    /\ truncate_ch' = Tail(truncate_ch)
    /\ best_tip' = IF /\ Head(truncate_ch) \in Store
                      /\ Head(truncate_ch) \in Ancestors(best_tip)
                   THEN Head(truncate_ch)
                   ELSE best_tip
    /\ UNCHANGED <<hmVars, codecVars, vqVars, btvVars, cbvVars, tpcVars,
                   rwdVars, extVars, obpVars, hmnewVars, callVars, scVars, attr, pooled, process_block_ch, intake,
                   lonely_block_ch, lonely_rx_alive, orphan, resolver,
                   unverified_ch, unverified_tip, commit_log, consumer_pc,
                   callbacks, reports, exit_signal, svc_pc>>

\* ------------------------------------------------- ChainService thread end

\* Mutant: the consumer is signalled without joining the resolver.
JoinResolver_NoJoin ==
    /\ svc_pc = "join_resolver"
    /\ svc_pc' = "join_consumer"
    /\ UNCHANGED <<offChainVars, attr, pooled, process_block_ch, intake, lonely_block_ch,
                   lonely_rx_alive, orphan, resolver, unverified_ch,
                   unverified_tip, best_tip, commit_log, consumer_pc,
                   callbacks, reports, exit_signal>>

\* search_orphan_pool_thread.join() returned; unverified_queue_stop_tx.send.
JoinResolver ==
    /\ svc_pc = "join_resolver"
    /\ resolver.pc = "stopped"
    /\ svc_pc' = "join_consumer"
    /\ UNCHANGED <<offChainVars, attr, pooled, process_block_ch, intake, lonely_block_ch,
                   lonely_rx_alive, orphan, resolver, unverified_ch,
                   unverified_tip, best_tip, commit_log, consumer_pc,
                   callbacks, reports, exit_signal>>

\* consumer_unverified_thread.join() returned.
JoinConsumer ==
    /\ svc_pc = "join_consumer"
    /\ consumer_pc = "stopped"
    /\ svc_pc' = "done"
    /\ UNCHANGED <<offChainVars, attr, pooled, process_block_ch, intake, lonely_block_ch,
                   lonely_rx_alive, orphan, resolver, unverified_ch,
                   unverified_tip, best_tip, commit_log, consumer_pc,
                   callbacks, reports, exit_signal>>

\* ------------------------------------------------------- blocking submit

\* b is somewhere in the pipeline: queued in a channel, held by a worker or
\* buffered in the orphan pool.
InPipeline(b) ==
    \/ b \in Range(process_block_ch)
    \/ intake.pc = "send" /\ intake.cur = b
    \/ b \in Range(lonely_block_ch)
    \/ b \in Range(orphan)
    \/ b \in Range(resolver.pending)
    \/ b \in Range(unverified_ch)

\* The block's callback was dropped without being invoked: the block went
\* into the call and is nowhere in the pipeline, its callback unfired.
CallbackDropped(b) ==
    /\ calls[b] # "none"
    /\ callbacks[b] = <<>>
    /\ ~InPipeline(b)

\* Mutant: a dropped callback is not noticed.
verify_result_recv_NoDisconnect(b) ==
    IF callbacks[b] # <<>> THEN <<callbacks[b][1]>> ELSE <<>>

\* verify_result_rx.recv().unwrap_or_else(..): the result the callback
\* sent, or a System error when the sender was dropped with the callback;
\* <<>> while neither has happened.
verify_result_recv(b) ==
    IF callbacks[b] # <<>> THEN <<callbacks[b][1]>>
    ELSE IF CallbackDropped(b) THEN <<"recv_err">>
    ELSE <<>>

\* ChainController::blocking_process_lonely_block, after the submit has
\* returned: the wait on the single-shot result channel ends.
BlockingReturn(b) ==
    /\ calls[b] \in {"responded", "gone"}
    /\ blocking[b] = <<>>
    /\ verify_result_recv(b) # <<>>
    /\ blocking' = [blocking EXCEPT ![b] = verify_result_recv(b)]
    /\ UNCHANGED <<chainVars, offIntakeVars, calls>>

\* ------------------------------------------------------- header index (A)

Hashes == 1 .. MaxHashes

\* size_limit = memory_limit / ITEM_BYTES_SIZE (HeaderMap::new).
size_limit == MemoryLimit \div ITEM_BYTES_SIZE

\* The little-endian bytes of n, w of them.
RECURSIVE to_le_bytes(_, _)
to_le_bytes(n, w) ==
    IF w = 0 THEN <<>> ELSE <<n % 256>> \o to_le_bytes(n \div 256, w - 1)

RECURSIVE from_le_bytes(_)
from_le_bytes(bytes) ==
    IF bytes = <<>> THEN 0 ELSE Head(bytes) + 256 * from_le_bytes(Tail(bytes))

\* Mutant: to_vec writes the timestamp before the epoch.
to_vec_FieldsSwapped(inner) ==
    to_le_bytes(inner.number, 8)
        \o to_le_bytes(inner.timestamp, 8)
        \o to_le_bytes(inner.epoch, 8)
        \o to_le_bytes(inner.parent_hash, 32)
        \o to_le_bytes(inner.total_difficulty, 32)
        \o (IF inner.skip_hash = <<>>
            THEN <<>>
            ELSE to_le_bytes(inner.skip_hash[1], 32))

\* HeaderIndexViewInner::to_vec: 88 bytes, or 120 with a skip_hash.
to_vec(inner) ==
    to_le_bytes(inner.number, 8)
        \o to_le_bytes(inner.epoch, 8)
        \o to_le_bytes(inner.timestamp, 8)
        \o to_le_bytes(inner.parent_hash, 32)
        \o to_le_bytes(inner.total_difficulty, 32)
        \o (IF inner.skip_hash = <<>>
            THEN <<>>
            ELSE to_le_bytes(inner.skip_hash[1], 32))

\* HeaderIndexViewInner::from_slice_should_be_ok.
from_slice_should_be_ok(slice) ==
    [number |-> from_le_bytes(SubSeq(slice, 1, 8)),
     epoch |-> from_le_bytes(SubSeq(slice, 9, 16)),
     timestamp |-> from_le_bytes(SubSeq(slice, 17, 24)),
     parent_hash |-> from_le_bytes(SubSeq(slice, 25, 56)),
     total_difficulty |-> from_le_bytes(SubSeq(slice, 57, 88)),
     skip_hash |-> IF Len(slice) = 120
                   THEN <<from_le_bytes(SubSeq(slice, 89, 120))>>
                   ELSE <<>>]

\* The views of header h that are inserted: without a skip_hash, and with
\* the skip pointer filled in (skip_hash is an option: <<>> or <<hash>>).
Inner(h, skip) ==
    [number |-> h, epoch |-> 256 + h, timestamp |-> 1000 * h,
     parent_hash |-> h - 1, total_difficulty |-> 300 * h, skip_hash |-> skip]

ViewsOf(h) == {Inner(h, <<>>), Inner(h, <<h - 1>>)}

\* Option<HeaderIndexView> / bool results of the lookups.
Absent == <<>>

Found(inner) == <<inner>>

HotIndex(map, h) ==
    IF \E i \in 1 .. Len(map) : map[i][1] = h
    THEN CHOOSE i \in 1 .. Len(map) : map[i][1] = h
    ELSE 0

HotWithout(map, keys) ==
    LET Stays(e) == e[1] \notin keys IN SelectSeq(map, Stays)

\* MemoryMap::contains_key.
memory_contains_key(map, h) == HotIndex(map, h) # 0

\* MemoryMap::get_refresh: the entry found, moved to the back.
memory_get(map, h) ==
    IF HotIndex(map, h) = 0 THEN Absent ELSE Found(map[HotIndex(map, h)][2])

memory_refresh(map, h) ==
    IF HotIndex(map, h) = 0
    THEN map
    ELSE Append(HotWithout(map, {h}), map[HotIndex(map, h)])

\* MemoryMap::insert: LinkedHashMap::insert puts the entry at the back,
\* replacing an entry of the same key.
memory_insert(map, h, inner) == Append(HotWithout(map, {h}), <<h, inner>>)

\* MemoryMap::remove.
memory_remove(map, h) == HotWithout(map, {h})

\* Mutant: front_n takes the entries from the back of the map.
front_n_Newest(map, limit) ==
    IF Len(map) > limit
    THEN SubSeq(map, limit + 1, Len(map))
    ELSE <<>>

\* MemoryMap::front_n: the first size - size_limit entries, when there are
\* more than size_limit (<<>> stands for None).
front_n(map, limit) ==
    IF Len(map) > limit
    THEN SubSeq(map, 1, Len(map) - limit)
    ELSE <<>>

\* MemoryMap::remove_batch: removal by key.
memory_remove_batch(map, keys) == HotWithout(map, keys)

\* HeedBackend::contains_key / get: a read transaction; get decodes.
backend_contains_key(db, h) == db[h] # <<>>

backend_get(db, h) ==
    IF db[h] = <<>> THEN Absent ELSE Found(from_slice_should_be_ok(db[h]))

RECURSIVE backend_put_all(_, _)
backend_put_all(db, values) ==
    IF values = <<>>
    THEN db
    ELSE backend_put_all([db EXCEPT ![Head(values)[1]] = to_vec(Head(values)[2])],
                         Tail(values))

\* HeedBackend::remove, the write transaction: delete the key.
backend_delete(db, h) == [db EXCEPT ![h] = <<>>]

backend_db_is_empty(db) == \A h \in Hashes : db[h] = <<>>

IdleClient(op, h, res) == [pc |-> "idle", op |-> op, hash |-> h, res |-> res]

\* HeaderMap::insert -> kernel insert: writes go to the hot tier.
ClientInsert(h, inner) ==
    /\ client.pc = "idle"
    /\ hot' = memory_insert(hot, h, inner)
    /\ client' = IdleClient("insert", h, Absent)
    /\ expect' = [expect EXCEPT ![h] = [last |-> "inserted", view |-> Found(inner)]]
    /\ UNCHANGED <<cold, empty_flag, mover, offIndexVars>>

\* HeaderMap::get -> kernel get: the hot tier first (refreshing the entry).
ClientGet(h) ==
    /\ client.pc = "idle"
    /\ hot' = memory_refresh(hot, h)
    /\ client' = IF memory_contains_key(hot, h)
                 THEN IdleClient("get", h, memory_get(hot, h))
                 ELSE [pc |-> "cold", op |-> "get", hash |-> h, res |-> Absent]
    /\ UNCHANGED <<cold, empty_flag, mover, expect, offIndexVars>>

\* HeaderMap::contains_key -> kernel contains_key: the hot tier first.
ClientContains(h) ==
    /\ client.pc = "idle"
    /\ client' = IF memory_contains_key(hot, h)
                 THEN IdleClient("contains", h, TRUE)
                 ELSE [pc |-> "cold", op |-> "contains", hash |-> h, res |-> FALSE]
    /\ UNCHANGED <<hot, cold, empty_flag, mover, expect, offIndexVars>>

\* HeaderMap::remove -> kernel remove: the hot tier first.
ClientRemove(h) ==
    /\ client.pc = "idle"
    /\ hot' = memory_remove(hot, h)
    /\ client' = [pc |-> "cold", op |-> "remove", hash |-> h, res |-> Absent]
    /\ UNCHANGED <<cold, empty_flag, mover, expect, offIndexVars>>

\* The cold-tier half of a lookup: skipped when the backend says it is
\* empty, else a read of the store.
ClientColdLookup ==
    /\ client.pc = "cold"
    /\ client.op \in {"get", "contains"}
    /\ client' =
         IF client.op = "get"
         THEN IdleClient("get", client.hash,
                         IF empty_flag THEN Absent
                         ELSE backend_get(cold, client.hash))
         ELSE IdleClient("contains", client.hash,
                         ~empty_flag /\ backend_contains_key(cold, client.hash))
    /\ UNCHANGED <<hot, cold, empty_flag, mover, expect, offIndexVars>>

\* The cold-tier half of remove: HeedBackend::remove deletes the key and
\* sets the empty flag when the db has become empty.
ClientColdRemove ==
    /\ client.pc = "cold"
    /\ client.op = "remove"
    /\ cold' = backend_delete(cold, client.hash)
    /\ empty_flag' = IF backend_db_is_empty(cold') THEN TRUE ELSE empty_flag
    /\ client' = IdleClient("remove", client.hash, Absent)
    /\ expect' = [expect EXCEPT ![client.hash] = [last |-> "removed", view |-> Absent]]
    /\ UNCHANGED <<hot, mover, offIndexVars>>

\* limit_memory, first step: memory.front_n(size_limit) under the read lock.
MoverFrontN ==
    /\ mover.pc = "idle"
    /\ front_n(hot, size_limit) # <<>>
    /\ mover' = [pc |-> "insert", values |-> front_n(hot, size_limit)]
    /\ UNCHANGED <<hot, cold, empty_flag, client, expect, offIndexVars>>

\* HeedBackend::insert: one write transaction putting every value.
MoverBackendInsert ==
    /\ mover.pc = "insert"
    /\ cold' = backend_put_all(cold, mover.values)
    /\ mover' = [mover EXCEPT !.pc = "flag"]
    /\ UNCHANGED <<hot, empty_flag, client, expect, offIndexVars>>

\* HeedBackend::insert, after the commit: empty_flag.store(false).
MoverStoreFlag ==
    /\ mover.pc = "flag"
    /\ empty_flag' = FALSE
    /\ mover' = [mover EXCEPT !.pc = "remove_batch"]
    /\ UNCHANGED <<hot, cold, client, expect, offIndexVars>>

\* limit_memory, last step: memory.remove_batch of the keys moved.
MoverRemoveBatch ==
    /\ mover.pc = "remove_batch"
    /\ hot' = memory_remove_batch(hot, {mover.values[i][1] : i \in 1 .. Len(mover.values)})
    /\ mover' = [pc |-> "idle", values |-> <<>>]
    /\ UNCHANGED <<cold, empty_flag, client, expect, offIndexVars>>

HMInit ==
    /\ hot = <<>>
    /\ cold = [h \in Hashes |-> <<>>]
    /\ empty_flag = TRUE
    /\ mover = [pc |-> "idle", values |-> <<>>]
    /\ client = IdleClient("none", 1, Absent)
    /\ expect = [h \in Hashes |-> [last |-> "never", view |-> Absent]]

NextHM ==
    \/ \E h \in Hashes : \E inner \in ViewsOf(h) : ClientInsert(h, inner)
    \/ \E h \in Hashes : ClientGet(h)
    \/ \E h \in Hashes : ClientContains(h)
    \/ \E h \in Hashes : ClientRemove(h)
    \/ ClientColdLookup
    \/ ClientColdRemove
    \/ MoverFrontN
    \/ MoverBackendInsert
    \/ MoverStoreFlag
    \/ MoverRemoveBatch

\* ------------------------------------------------- header index record codec

\* The values a record field takes.
RECURSIVE Pow256(_)
Pow256(k) == IF k = 0 THEN 1 ELSE 256 * Pow256(k - 1)

FieldValues ==
    {0} \cup {Pow256(k) - 1 : k \in 1 .. MaxCodecBytes}
        \cup {Pow256(k) : k \in 1 .. MaxCodecBytes}

\* HeaderIndexViewInner: every combination of field values, skip_hash None
\* or Some.
Inners ==
    [number : FieldValues, epoch : FieldValues, timestamp : FieldValues,
     parent_hash : FieldValues, total_difficulty : FieldValues,
     skip_hash : {<<>>} \cup {<<v>> : v \in FieldValues}]

CodecIdle == codec = [pc |-> "idle", inner |-> Inner(1, <<>>),
                      bytes |-> <<>>, out |-> Inner(1, <<>>)]

CodecInit ==
    \E inner \in Inners :
        codec = [pc |-> "input", inner |-> inner, bytes |-> <<>>,
                 out |-> Inner(1, <<>>)]

\* HeedBackend::insert stores value.to_vec() (HeaderMapValue::bytes_encode).
CodecEncode ==
    /\ codec.pc = "input"
    /\ codec' = [codec EXCEPT !.pc = "encoded", !.bytes = to_vec(codec.inner)]
    /\ UNCHANGED offCodecVars

\* HeedBackend::get decodes the stored slice (HeaderMapValue::bytes_decode).
CodecDecode ==
    /\ codec.pc = "encoded"
    /\ codec' = [codec EXCEPT !.pc = "decoded",
                              !.out = from_slice_should_be_ok(codec.bytes)]
    /\ UNCHANGED offCodecVars

NextCodec ==
    \/ CodecEncode
    \/ CodecDecode

\* ------------------------------------------------------------ verify queue (C)

\* Enough ids to take the queue past the fullness threshold.
ShortIds == 1 .. (DEFAULT_MAX_VERIFY_TRANSACTIONS + 2)

\* Two transactions share each proposal_short_id (the id does not cover the
\* witnesses).
Txs == 1 .. (2 * (DEFAULT_MAX_VERIFY_TRANSACTIONS + 2))

proposal_short_id(tx) == (tx + 1) \div 2

\* remote: Option<(Cycle, PeerIndex)>.
Remotes == {<<>>, <<<<7, 1>>>>}

VqCall(op, arg, remote, ret) ==
    [op |-> op, arg |-> arg, remote |-> remote, ret |-> ret,
     tick |-> 1 - vq_last.tick]

\* VerifyQueue::len.
vq_len(inner) == Cardinality({id \in ShortIds : inner[id] # <<>>})

\* Mutant: full from the threshold on.
vq_is_full_AtThreshold(inner) == vq_len(inner) >= DEFAULT_MAX_VERIFY_TRANSACTIONS

\* VerifyQueue::is_full.
vq_is_full(inner) == vq_len(inner) > DEFAULT_MAX_VERIFY_TRANSACTIONS

\* VerifyQueue::contains_key.
vq_contains_key(inner, id) == inner[id] # <<>>

\* Mutant: add_tx inserts without the duplicate test.
vq_add_tx_Overwrites(inner, tx, remote) ==
    [ret |-> TRUE,
     inner |-> [inner EXCEPT ![proposal_short_id(tx)] =
                  <<[status |-> "Fresh", tx |-> tx, remote |-> remote]>>]]

\* VerifyQueue::add_tx: [ret, inner].
vq_add_tx(inner, tx, remote) ==
    IF vq_contains_key(inner, proposal_short_id(tx))
    THEN [ret |-> FALSE, inner |-> inner]
    ELSE [ret |-> TRUE,
          inner |-> [inner EXCEPT ![proposal_short_id(tx)] =
                       <<[status |-> "Fresh", tx |-> tx, remote |-> remote]>>]]

AddTx(tx, remote) ==
    /\ ~vq_panicked
    /\ vq_inner' = vq_add_tx(vq_inner, tx, remote).inner
    /\ vq_last' = VqCall("add_tx", tx, remote,
                         vq_add_tx(vq_inner, tx, remote).ret)
    /\ UNCHANGED <<vq_panicked, offQueueVars>>

\* VerifyQueue::remove_tx: remove_by_id, shrink_to_fit, then
\* Some(ret.unwrap().inner): the unwrap panics when the id was absent.
RemoveTx(id) ==
    /\ ~vq_panicked
    /\ vq_inner' = [vq_inner EXCEPT ![id] = <<>>]
    /\ IF vq_inner[id] = <<>>
       THEN /\ vq_panicked' = TRUE
            /\ vq_last' = VqCall("remove_tx", id, <<>>, "panic")
       ELSE /\ vq_panicked' = FALSE
            /\ vq_last' = VqCall("remove_tx", id, <<>>,
                                 <<[tx |-> vq_inner[id][1].tx,
                                    remote |-> vq_inner[id][1].remote]>>)
    /\ UNCHANGED offQueueVars

\* VerifyQueue::remove_txs: absent ids are skipped.
RemoveTxs(ids) ==
    /\ ~vq_panicked
    /\ vq_inner' = [id \in ShortIds |->
                      IF id \in ids THEN <<>> ELSE vq_inner[id]]
    /\ vq_last' = VqCall("remove_txs", 0, <<>>, <<>>)
    /\ UNCHANGED <<vq_panicked, offQueueVars>>

IsFull ==
    /\ ~vq_panicked
    /\ vq_last' = VqCall("is_full", 0, <<>>, vq_is_full(vq_inner))
    /\ UNCHANGED <<vq_inner, vq_panicked, offQueueVars>>

ContainsKey(id) ==
    /\ ~vq_panicked
    /\ vq_last' = VqCall("contains_key", id, <<>>,
                         vq_contains_key(vq_inner, id))
    /\ UNCHANGED <<vq_inner, vq_panicked, offQueueVars>>

\* VerifyQueue::clear.
Clear ==
    /\ ~vq_panicked
    /\ vq_inner' = [id \in ShortIds |-> <<>>]
    /\ vq_last' = VqCall("clear", 0, <<>>, <<>>)
    /\ UNCHANGED <<vq_panicked, offQueueVars>>

\* VerifyQueue::new.
VqInit ==
    /\ vq_inner = [id \in ShortIds |-> <<>>]
    /\ vq_last = [op |-> "new", arg |-> 0, remote |-> <<>>,
                  ret |-> <<>>, tick |-> 0]
    /\ vq_panicked = FALSE

NextQueue ==
    \/ \E tx \in Txs, remote \in Remotes : AddTx(tx, remote)
    \/ \E id \in ShortIds : RemoveTx(id)
    \/ \E a \in ShortIds, b \in ShortIds : a <= b /\ RemoveTxs({a, b})
    \/ IsFull
    \/ \E id \in ShortIds : ContainsKey(id)
    \/ Clear

\* ------------------------------------- batch transaction verification (H.7)

\* The hashes of the transactions after the cellbase; the transaction at
\* index i of the block has hash i (the cellbase, index 0, has hash 0).
TxHashes == 1 .. MaxTxs

Cycles == 1 .. MaxTxCycles

\* CacheEntry::Completed / CacheEntry::Suspended.
Completed(c) == [kind |-> "Completed", cycles |-> c]

Suspended == [kind |-> "Suspended", cycles |-> 0]

CacheEntries == {Completed(c) : c \in Cycles} \cup {Suspended}

\* What the per-transaction verifiers answer for a resolved transaction:
\* TimeRelativeTransactionVerifier::verify (time_relative), and the
\* ContextualTransactionVerifier (contextual: <<>> for an error, or <<c>>,
\* the cycles of its Completed).
ResolvedTxs ==
    [time_relative : {"ok", "error"},
     contextual : {<<>>} \cup {<<c>> : c \in Cycles}]

\* The blocks verified: the transactions after the cellbase.
RECURSIVE SeqsOfLen(_, _)
SeqsOfLen(S, n) ==
    IF n = 0 THEN {<<>>}
    ELSE {Append(q, x) : q \in SeqsOfLen(S, n - 1), x \in S}

ResolvedBlocks == UNION {SeqsOfLen(ResolvedTxs, n) : n \in 0 .. MaxTxs}

RECURSIVE SumCycles(_)
SumCycles(ret) ==
    IF ret = <<>> THEN 0 ELSE Head(ret).cycles + SumCycles(Tail(ret))

\* The keys of the cache: the transaction hashes and the cellbase's hash 0.
CacheHashes == {0} \cup TxHashes

\* Mutant: the keys looked up start at the cellbase.
fetch_keys_WithCellbase(resolved) == [i \in 1 .. (Len(resolved) + 1) |-> i - 1]

\* Lines 393-397: the hashes of resolved.iter().skip(1), the transactions
\* after the cellbase, in block order.
fetch_keys(resolved) == [i \in 1 .. Len(resolved) |-> i]

\* fetched_cache: the entries of the keys given, peeked under the read lock.
fetched_cache(cache, keys) ==
    [h \in CacheHashes |-> IF h \in Range(keys) THEN cache[h] ELSE <<>>]

\* LruCache::put (and get): the key becomes the most recently used.
lru_promote(order, h) ==
    LET Other(k) == k # h IN Append(SelectSeq(order, Other), h)

RECURSIVE promote_all(_, _)
promote_all(order, keys) ==
    IF keys = <<>> THEN order
    ELSE promote_all(lru_promote(order, Head(keys)), Tail(keys))

\* Mutant: looking a key up makes it the most recently used.
peek_order_Promotes(order, keys) ==
    LET Held(k) == k \in Range(order) IN promote_all(order, SelectSeq(keys, Held))

\* Line 363: guard.peek(&hash) for every key; LruCache::peek leaves the
\* recency order as it is.
peek_order(order, keys) == order

\* Mutant: a Completed cache entry does not stop the full verification.
verify_tx_Reverifies(tx, entry) ==
    IF tx.contextual = <<>>
    THEN [ran |-> "contextual", ok |-> FALSE, cycles |-> 0]
    ELSE [ran |-> "contextual", ok |-> TRUE, cycles |-> tx.contextual[1]]

\* The closure mapped over the resolved transactions (lines 407-469): which
\* verifier runs, whether it succeeds, and the cycles of the Completed kept.
verify_tx(tx, entry) ==
    IF entry # <<>> /\ entry[1].kind = "Completed"
    THEN [ran |-> "time_relative", ok |-> tx.time_relative = "ok",
          cycles |-> entry[1].cycles]
    ELSE IF entry # <<>>
    THEN [ran |-> "complete", ok |-> tx.contextual # <<>>,
          cycles |-> IF tx.contextual = <<>> THEN 0 ELSE tx.contextual[1]]
    ELSE [ran |-> "contextual", ok |-> tx.contextual # <<>>,
          cycles |-> IF tx.contextual = <<>> THEN 0 ELSE tx.contextual[1]]

\* Mutant: the block passes at one cycle over the maximum.
block_cycles_result_OffByOne(ret) ==
    IF SumCycles(ret) > MaxBlockCycles + 1
    THEN [kind |-> "ExceededMaximumCycles", index |-> 0, cycles |-> 0,
          completed |-> <<>>]
    ELSE [kind |-> "Ok", index |-> 0, cycles |-> SumCycles(ret),
          completed |-> ret]

\* Lines 474-488: the sum of the cycles against consensus.max_block_cycles.
block_cycles_result(ret) ==
    IF SumCycles(ret) > MaxBlockCycles
    THEN [kind |-> "ExceededMaximumCycles", index |-> 0, cycles |-> 0,
          completed |-> <<>>]
    ELSE [kind |-> "Ok", index |-> 0, cycles |-> SumCycles(ret),
          completed |-> ret]

NoResult == [kind |-> "none", index |-> 0, cycles |-> 0, completed |-> <<>>]

BtvCall(pc, cellbase, resolved, cache) ==
    [pc |-> pc, cellbase |-> cellbase, resolved |-> resolved,
     cache_before |-> cache, lookups |-> 0, keys |-> <<>>,
     fetched |-> [h \in CacheHashes |-> <<>>],
     outcome |-> <<>>, result |-> NoResult]

\* verify, up to the block_on of fetched_cache (lines 391-401): nothing is
\* fetched for a block of the cellbase alone (resolved.len() is 1).
BtvFetch ==
    /\ btv.pc = "start"
    /\ IF Len(btv.resolved) > 0
       THEN /\ btv' = [btv EXCEPT
                         !.pc = "fetched",
                         !.lookups = @ + 1,
                         !.keys = fetch_keys(btv.resolved),
                         !.fetched = fetched_cache(txs_verify_cache,
                                                   fetch_keys(btv.resolved))]
            /\ cache_lru' = peek_order(cache_lru, fetch_keys(btv.resolved))
       ELSE /\ btv' = [btv EXCEPT !.pc = "fetched"]
            /\ UNCHANGED cache_lru
    /\ UNCHANGED <<txs_verify_cache, cache_tasks, offTxsVars>>

\* Mutant: the index is counted after the cellbase was skipped.
enumerate_txs_AfterSkip(cellbase, resolved, fetched) ==
    [i \in 1 .. (Len(resolved) + 1) |->
        IF i = 1
        THEN [index |-> 0, hash |-> 0, o |-> verify_tx(cellbase, fetched[0])]
        ELSE [index |-> i - 2, hash |-> i - 1,
              o |-> verify_tx(resolved[i - 1], fetched[i - 1])]]

\* Lines 407-470: the closure's results over resolved.par_iter().enumerate(),
\* the cellbase first (index 0); the transaction at index i has hash i.
enumerate_txs(cellbase, resolved, fetched) ==
    [i \in 1 .. (Len(resolved) + 1) |->
        IF i = 1
        THEN [index |-> 0, hash |-> 0, o |-> verify_tx(cellbase, fetched[0])]
        ELSE [index |-> i - 1, hash |-> i - 1,
              o |-> verify_tx(resolved[i - 1], fetched[i - 1])]]

\* verify, from the parallel map to the result (lines 403-488): the
\* cellbase's result is skipped (line 471); the first error collected ends
\* the call (any of the failing transactions, as the map is parallel);
\* otherwise the update_cache task is spawned when there is a transaction
\* besides the cellbase, and then the sum is checked.
BtvVerify ==
    /\ btv.pc = "fetched"
    /\ LET n == Len(btv.resolved)
           outcome == [i \in 1 .. n |->
                         verify_tx(btv.resolved[i], btv.fetched[i])]
           kept == Tail(enumerate_txs(btv.cellbase, btv.resolved, btv.fetched))
           ret == [j \in 1 .. Len(kept) |-> Completed(kept[j].o.cycles)]
           pairs == [j \in 1 .. Len(kept) |-> <<kept[j].hash, ret[j]>>]
       IN  IF \E j \in 1 .. Len(kept) : ~kept[j].o.ok
           THEN /\ \E j \in 1 .. Len(kept) :
                      /\ ~kept[j].o.ok
                      /\ btv' = [btv EXCEPT
                                   !.pc = "done",
                                   !.outcome = outcome,
                                   !.result =
                                      [kind |-> "BlockTransactionsError",
                                       index |-> kept[j].index, cycles |-> 0,
                                       completed |-> <<>>]]
                /\ UNCHANGED cache_tasks
           ELSE /\ btv' = [btv EXCEPT !.pc = "done",
                                      !.outcome = outcome,
                                      !.result = block_cycles_result(ret)]
                /\ cache_tasks' = IF ret # <<>>
                                  THEN Append(cache_tasks, pairs)
                                  ELSE cache_tasks
    /\ UNCHANGED <<txs_verify_cache, cache_lru, offTxsVars>>

\* The task update_cache spawned: every (hash, Completed) is put under the
\* write lock, each becoming the most recently used in turn.
CacheTask ==
    /\ cache_tasks # <<>>
    /\ LET pairs == Head(cache_tasks)
           keys == [j \in 1 .. Len(pairs) |-> pairs[j][1]]
       IN  /\ txs_verify_cache' =
                [h \in CacheHashes |->
                   IF h \in Range(keys)
                   THEN <<pairs[CHOOSE j \in 1 .. Len(pairs) :
                                   /\ pairs[j][1] = h
                                   /\ \A k \in (j + 1) .. Len(pairs) :
                                         pairs[k][1] # h][2]>>
                   ELSE txs_verify_cache[h]]
           /\ cache_lru' = promote_all(cache_lru, keys)
    /\ cache_tasks' = Tail(cache_tasks)
    /\ UNCHANGED <<btv, offTxsVars>>

\* The cellbase of the blocks verified: its full verification passes with
\* one cycle.
PassingCellbase == [time_relative |-> "ok", contextual |-> <<1>>]

\* The orders the keys of S can be in.
Orders(S) == {q \in SeqsOfLen(S, Cardinality(S)) : Range(q) = S}

CachedKeys(cache) == {h \in CacheHashes : cache[h] # <<>>}

TxsIdle ==
    /\ txs_verify_cache = [h \in CacheHashes |-> <<>>]
    /\ cache_lru = <<>>
    /\ btv = BtvCall("idle", PassingCellbase, <<>>, [h \in CacheHashes |-> <<>>])
    /\ cache_tasks = <<>>

\* A block of any transactions against a cache of any content (no cellbase
\* is ever in it), the entries used in the order of their hashes.
TxsInit ==
    /\ txs_verify_cache \in [CacheHashes -> {<<>>} \cup {<<e>> : e \in CacheEntries}]
    /\ txs_verify_cache[0] = <<>>
    /\ cache_lru \in Orders(CachedKeys(txs_verify_cache))
    /\ \A i, j \in 1 .. Len(cache_lru) : i < j => cache_lru[i] < cache_lru[j]
    /\ \E resolved \in ResolvedBlocks :
          btv = BtvCall("start", PassingCellbase, resolved, txs_verify_cache)
    /\ cache_tasks = <<>>

\* The cellbase and the transactions of the blocks whose cellbase handling
\* and failures are checked: each passes with one cycle or fails.
BatchTxs == [time_relative : {"ok", "error"}, contextual : {<<>>, <<1>>}]

BatchBlocks == UNION {SeqsOfLen(BatchTxs, n) : n \in 0 .. MaxTxs}

\* A block of BatchTxs, with any cellbase, against a cache of Completed(1)
\* and Suspended entries in any recency order.
BatchInit ==
    /\ txs_verify_cache \in [CacheHashes -> {<<>>, <<Completed(1)>>, <<Suspended>>}]
    /\ txs_verify_cache[0] = <<>>
    /\ cache_lru \in Orders(CachedKeys(txs_verify_cache))
    /\ \E resolved \in BatchBlocks, cellbase \in BatchTxs :
          btv = BtvCall("start", cellbase, resolved, txs_verify_cache)
    /\ cache_tasks = <<>>

NextTxs ==
    \/ BtvFetch
    \/ BtvVerify
    \/ CacheTask

\* ------------------------------------------- contextual block verifier (H)

\* The opt-out flags of Switch a contextual verification reads or could read.
SwitchFlags ==
    {"epoch", "uncles", "two_phase_commit", "daoheader", "reward",
     "extension", "script"}

\* The sub-checks, and the error of each.
SubChecks ==
    {"epoch", "uncles", "two_phase_commit", "daoheader", "reward",
     "extension", "txs"}

\* The lookups before the sub-checks: get_block_header(parent_hash) and
\* next_epoch_ext(parent).
ParentLookups == {"found", "no_header", "no_epoch_ext"}

CbvCall(pc, switch, parent, fails) ==
    [pc |-> pc, switch |-> switch, parent |-> parent, fails |-> fails,
     ran |-> <<>>, skip_script |-> FALSE, result |-> "none"]

\* Lines 734-754: the parent header and the epoch, UnknownParentError when
\* either is missing.
CbvParent ==
    /\ cbv.pc = "start"
    /\ cbv' = IF cbv.parent = "found"
              THEN [cbv EXCEPT !.pc = "epoch"]
              ELSE [cbv EXCEPT !.pc = "done", !.result = "UnknownParentError"]
    /\ UNCHANGED offVerifierVars

\* Mutant: a failing sub-check is recorded and the call goes on.
RunCheck_GoesOn(check, disabled, next) ==
    /\ cbv.pc = check
    /\ cbv' = IF disabled
              THEN [cbv EXCEPT !.pc = next]
              ELSE IF check \in cbv.fails
              THEN [cbv EXCEPT !.pc = next, !.ran = Append(@, check),
                               !.result = check]
              ELSE [cbv EXCEPT !.pc = next, !.ran = Append(@, check)]
    /\ UNCHANGED offVerifierVars

\* A sub-check, run unless disabled: its failure ends the call with its
\* error, otherwise the call goes on with the next one.
RunCheck(check, disabled, next) ==
    /\ cbv.pc = check
    /\ cbv' = IF disabled
              THEN [cbv EXCEPT !.pc = next]
              ELSE IF check \in cbv.fails
              THEN [cbv EXCEPT !.pc = "done", !.ran = Append(@, check),
                               !.result = check]
              ELSE [cbv EXCEPT !.pc = next, !.ran = Append(@, check)]
    /\ UNCHANGED offVerifierVars

\* Lines 756-758.
CbvEpoch == RunCheck("epoch", "epoch" \in cbv.switch, "uncles")

\* Lines 760-763.
CbvUncles == RunCheck("uncles", "uncles" \in cbv.switch, "two_phase_commit")

\* Lines 765-767.
CbvTwoPhaseCommit ==
    RunCheck("two_phase_commit", "two_phase_commit" \in cbv.switch, "daoheader")

\* Lines 769-771.
CbvDaoHeader == RunCheck("daoheader", "daoheader" \in cbv.switch, "reward")

\* Lines 773-775.
CbvReward == RunCheck("reward", "reward" \in cbv.switch, "extension")

\* Lines 777-783: BlockExtensionVerifier is run whatever the switch.
CbvExtension == RunCheck("extension", FALSE, "txs")

\* Lines 785-792: BlockTxsVerifier::verify with switch.disable_script().
CbvTxs ==
    /\ cbv.pc = "txs"
    /\ cbv' = [cbv EXCEPT
                 !.pc = "done",
                 !.ran = Append(@, "txs"),
                 !.skip_script = "script" \in cbv.switch,
                 !.result = IF "txs" \in cbv.fails THEN "txs" ELSE "Ok"]
    /\ UNCHANGED offVerifierVars

CbvIdle == cbv = CbvCall("idle", {}, "found", {})

\* Any switch, any outcome of the lookups and any set of failing sub-checks.
CbvInit ==
    \E switch \in SUBSET SwitchFlags, parent \in ParentLookups,
       fails \in SUBSET SubChecks :
        cbv = CbvCall("start", switch, parent, fails)

NextVerifier ==
    \/ CbvParent
    \/ CbvEpoch
    \/ CbvUncles
    \/ CbvTwoPhaseCommit
    \/ CbvDaoHeader
    \/ CbvReward
    \/ CbvExtension
    \/ CbvTxs

\* --------------------------------------------- two-phase commit check (H.3)

\* The store holds the ancestors of the block verified, one per number
\* below it; the block numbered h has hash h and parent_hash h - 1, and the
\* block numbered 0 is genesis, which carries no proposals and no uncles.
Heights == 0 .. (MaxNumber - 1)

ProposalIds == {1, 2}

saturating_sub(a, b) == IF a >= b THEN a - b ELSE 0

\* The proposal contents the ancestors may have.
ProposalsPerHeight ==
    {f \in [Heights -> SUBSET ProposalIds] : f[0] = {}}

UncleProposalsPerHeight ==
    {f \in [Heights -> {{}, {2}}] : f[0] = {}}

\* Mutant: the walk stops one block short of proposal_start.
RECURSIVE tpc_walk_StopsEarly(_, _, _, _)
tpc_walk_StopsEarly(t, block_hash, proposal_end, proposal_start) ==
    IF ~(proposal_end > proposal_start)
    THEN [found |-> TRUE, ids |-> {}, underflow |-> FALSE]
    ELSE IF block_hash = t.no_header
    THEN [found |-> FALSE, ids |-> {}, underflow |-> FALSE]
    ELSE IF block_hash = 0
    THEN [found |-> TRUE, ids |-> {}, underflow |-> FALSE]
    ELSE LET rest == tpc_walk_StopsEarly(t, block_hash - 1, proposal_end - 1,
                                         proposal_start)
         IN  [found |-> rest.found,
              ids |-> t.proposals[block_hash]
                         \cup t.uncle_proposals[block_hash] \cup rest.ids,
              underflow |-> rest.underflow]

\* Mutant: the walk does not stop at the genesis header.
RECURSIVE tpc_walk_ThroughGenesis(_, _, _, _)
tpc_walk_ThroughGenesis(t, block_hash, proposal_end, proposal_start) ==
    IF ~(proposal_end >= proposal_start)
    THEN [found |-> TRUE, ids |-> {}, underflow |-> FALSE]
    ELSE IF block_hash = t.no_header
    THEN [found |-> FALSE, ids |-> {}, underflow |-> FALSE]
    ELSE IF proposal_end = 0
    THEN [found |-> TRUE,
          ids |-> t.proposals[block_hash] \cup t.uncle_proposals[block_hash],
          underflow |-> TRUE]
    ELSE LET rest == tpc_walk_ThroughGenesis(t, block_hash - 1,
                                             proposal_end - 1, proposal_start)
         IN  [found |-> rest.found,
              ids |-> t.proposals[block_hash]
                         \cup t.uncle_proposals[block_hash] \cup rest.ids,
              underflow |-> rest.underflow]

\* The while loop of lines 169-190, from block_hash at proposal_end down to
\* proposal_start: whether every header was found, the ids gathered, and
\* whether `proposal_end -= 1` ran with proposal_end at 0 (an overflow of
\* the unsigned number, after which the walk is not followed further).
RECURSIVE tpc_walk(_, _, _, _)
tpc_walk(t, block_hash, proposal_end, proposal_start) ==
    IF ~(proposal_end >= proposal_start)
    THEN [found |-> TRUE, ids |-> {}, underflow |-> FALSE]
    ELSE IF block_hash = t.no_header
    THEN [found |-> FALSE, ids |-> {}, underflow |-> FALSE]
    ELSE IF block_hash = 0
    THEN [found |-> TRUE, ids |-> {}, underflow |-> FALSE]
    ELSE IF proposal_end = 0
    THEN [found |-> TRUE,
          ids |-> t.proposals[block_hash] \cup t.uncle_proposals[block_hash],
          underflow |-> TRUE]
    ELSE LET rest == tpc_walk(t, block_hash - 1, proposal_end - 1,
                              proposal_start)
         IN  [found |-> rest.found,
              ids |-> t.proposals[block_hash]
                         \cup t.uncle_proposals[block_hash] \cup rest.ids,
              underflow |-> rest.underflow]

\* The walk verify makes: from the hash of number - closest down to
\* number - farthest.
tpc_window_walk(t) ==
    LET proposal_start == saturating_sub(t.number, ProposalFarthest)
        proposal_end == saturating_sub(t.number, ProposalClosest)
    IN  tpc_walk(t, proposal_end, proposal_end, proposal_start)

\* TwoPhaseCommitVerifier::verify.
tpc_verify(t) ==
    IF t.number = 0 THEN "Ok"
    ELSE LET walk == tpc_window_walk(t)
         IN  IF t.no_hash THEN "AncestorNotFound"
             ELSE IF ~walk.found THEN "AncestorNotFound"
             ELSE IF t.committed \ walk.ids # {} THEN "Invalid"
             ELSE "Ok"

TpcCall(pc, number, proposals, uncle_proposals, committed, no_hash, no_header) ==
    [pc |-> pc, number |-> number, proposals |-> proposals,
     uncle_proposals |-> uncle_proposals, committed |-> committed,
     no_hash |-> no_hash, no_header |-> no_header, result |-> "none",
     walked |-> FALSE, ids |-> {}, underflow |-> FALSE]

\* The call, with what its walk gathered when it got as far as the walk.
TpcVerify ==
    /\ tpc.pc = "start"
    /\ LET walked == tpc.number # 0 /\ ~tpc.no_hash
           walk == IF walked THEN tpc_window_walk(tpc)
                   ELSE [found |-> TRUE, ids |-> {}, underflow |-> FALSE]
       IN  tpc' = [tpc EXCEPT !.pc = "done", !.result = tpc_verify(tpc),
                              !.walked = walked, !.ids = walk.ids,
                              !.underflow = walk.underflow]
    /\ UNCHANGED offCommitVars

TpcIdle ==
    tpc = TpcCall("idle", 0, [h \in Heights |-> {}], [h \in Heights |-> {}],
                  {}, FALSE, -1)

\* A block of any number and committed ids over any ancestors; the store
\* may lack the hash of the number looked up (no_hash) or the header of one
\* ancestor (no_header, -1 for none).
TpcInit ==
    \E number \in 0 .. MaxNumber, proposals \in ProposalsPerHeight,
       uncle_proposals \in UncleProposalsPerHeight,
       committed \in SUBSET ProposalIds, no_hash \in BOOLEAN,
       no_header \in {-1} \cup Heights :
        /\ \A h \in Heights :
              h >= number => proposals[h] = {} /\ uncle_proposals[h] = {}
        /\ no_header < number
        /\ tpc = TpcCall("start", number, proposals, uncle_proposals,
                         committed, no_hash, no_header)

\* The same where the genesis block itself carries proposals and uncles
\* with proposals.
TpcGenesisInit ==
    \E number \in 1 .. MaxNumber, proposals \in [Heights -> SUBSET ProposalIds],
       uncle_proposals \in [Heights -> {{}, {2}}],
       committed \in SUBSET ProposalIds, no_hash \in BOOLEAN,
       no_header \in {-1} \cup Heights :
        /\ \A h \in Heights :
              h >= number => proposals[h] = {} /\ uncle_proposals[h] = {}
        /\ no_header < number
        /\ tpc = TpcCall("start", number, proposals, uncle_proposals,
                         committed, no_hash, no_header)

NextCommit ==
    \/ TpcVerify

\* ------------------------------------------------------- reward check (H.5)

\* Lock scripts; the occupied capacity of a cell with lock l is l.
Locks == {1, 2}

Capacities == 0 .. MaxCapacity

\* The outputs of the cellbase: up to two, [capacity, lock] each.
CellOutputs == [capacity : Capacities, lock : Locks]

CellbaseOutputs ==
    {<<>>} \cup {<<o>> : o \in CellOutputs}
           \cup {<<o, q>> : o \in CellOutputs, q \in CellOutputs}

\* finalize_block_reward(parent): <<>> for a DaoError, or
\* <<[target_lock, total]>>.
BlockRewards ==
    {<<>>} \cup {<<[target_lock |-> l, total |-> t]>> :
                    l \in Locks, t \in Capacities}

\* CellOutput::is_lack_of_capacity(Capacity::zero()).
is_lack_of_capacity(output) == output.lock > output.capacity

\* TransactionView::outputs_capacity.
RECURSIVE outputs_capacity(_)
outputs_capacity(outputs) ==
    IF outputs = <<>> THEN 0
    ELSE Head(outputs).capacity + outputs_capacity(Tail(outputs))

\* RewardVerifier::verify. outputs().get(0) is reached only with an output:
\* without one outputs_capacity is 0, which is not a sufficient total.
reward_verify(r) ==
    IF r.reward = <<>> THEN "DaoError"
    ELSE LET no_finalization_target ==
                 r.parent_number + 1 <= FinalizationDelayLength
             target_lock == r.reward[1].target_lock
             total == r.reward[1].total
             insufficient_reward_to_create_cell ==
                 is_lack_of_capacity([capacity |-> total, lock |-> target_lock])
         IN  IF no_finalization_target \/ insufficient_reward_to_create_cell
             THEN IF r.outputs = <<>> THEN "Ok" ELSE "InvalidRewardTarget"
             ELSE IF outputs_capacity(r.outputs) # total
             THEN "InvalidRewardAmount"
             ELSE IF r.outputs[1].lock # target_lock
             THEN "InvalidRewardTarget"
             ELSE "Ok"

RwdCall(pc, parent_number, reward, outputs) ==
    [pc |-> pc, parent_number |-> parent_number, reward |-> reward,
     outputs |-> outputs, result |-> "none"]

RwdVerify ==
    /\ rwd.pc = "start"
    /\ rwd' = [rwd EXCEPT !.pc = "done", !.result = reward_verify(rwd)]
    /\ UNCHANGED offRewardVars

RwdIdle == rwd = RwdCall("idle", 0, <<>>, <<>>)

\* Any parent up to one past the finalization delay, any reward and any
\* cellbase outputs.
RwdInit ==
    \E parent_number \in 0 .. (FinalizationDelayLength + 1),
       reward \in BlockRewards, outputs \in CellbaseOutputs :
        rwd = RwdCall("start", parent_number, reward, outputs)

NextReward ==
    \/ RwdVerify

\* ------------------------------------------------ block extension check (H.6)

\* Hash values: MMR roots, cells roots and extra hashes.
RootValues == 1 .. MaxRoots

\* Extension lengths in bytes, on both sides of each limit of the check.
ExtensionLens == {0, 1, 31, 32, 63, 64, 96, 97}

\* block.extension(): its length, its bytes 0..32 and its bytes 32..64.
Extensions == [len : ExtensionLens, first : RootValues, second : RootValues]

\* chain_root_mmr.get_root() and get_cells_root(block): <<>> for an error,
\* or <<root>>.
RootResults == {<<>>} \cup {<<r>> : r \in RootValues}

\* Mutant: with both deployments active 32 bytes are enough.
ext_both_active_BothNeed32(e, extension) ==
    IF extension.len < 32 THEN "InvalidBlockExtension"
    ELSE IF e.chain_root = <<>> THEN "MMR"
    ELSE IF e.chain_root[1] # extension.first THEN "InvalidChainRoot"
    ELSE IF e.cells_root = <<>> THEN "CellsRootError"
    ELSE IF e.cells_root[1] # extension.second THEN "InvalidCellsRoot"
    ELSE "Ok"

\* The (true, true) arm.
ext_both_active(e, extension) ==
    IF extension.len < 64 THEN "InvalidBlockExtension"
    ELSE IF e.chain_root = <<>> THEN "MMR"
    ELSE IF e.chain_root[1] # extension.first THEN "InvalidChainRoot"
    ELSE IF e.cells_root = <<>> THEN "CellsRootError"
    ELSE IF e.cells_root[1] # extension.second THEN "InvalidCellsRoot"
    ELSE "Ok"

\* The (false, true) arm.
ext_cells_active(e, extension) ==
    IF extension.len < 32 THEN "InvalidBlockExtension"
    ELSE IF e.cells_root = <<>> THEN "CellsRootError"
    ELSE IF e.cells_root[1] # extension.first THEN "InvalidCellsRoot"
    ELSE "Ok"

\* The (true, false) arm.
ext_light_active(e, extension) ==
    IF extension.len < 32 THEN "InvalidBlockExtension"
    ELSE IF e.chain_root = <<>> THEN "MMR"
    ELSE IF e.chain_root[1] # extension.first THEN "InvalidChainRoot"
    ELSE "Ok"

\* The match on extra_fields_count.
ext_fields(e) ==
    IF e.extra_fields_count = 0
    THEN IF e.lc_activate \/ e.tc_activate THEN "NoBlockExtension" ELSE "Ok"
    ELSE IF e.extra_fields_count = 1
    THEN IF e.extension = <<>> THEN "UnknownFields"
         ELSE LET extension == e.extension[1]
              IN  IF extension.len = 0 THEN "EmptyBlockExtension"
                  ELSE IF extension.len > 96
                  THEN "ExceededMaximumBlockExtensionBytes"
                  ELSE IF e.lc_activate /\ e.tc_activate
                  THEN ext_both_active(e, extension)
                  ELSE IF e.tc_activate THEN ext_cells_active(e, extension)
                  ELSE IF e.lc_activate THEN ext_light_active(e, extension)
                  ELSE "Ok"
    ELSE "UnknownFields"

\* BlockExtensionVerifier::verify.
ext_verify(e) ==
    IF ext_fields(e) # "Ok" THEN ext_fields(e)
    ELSE IF e.calc_extra_hash # e.extra_hash THEN "InvalidExtraHash"
    ELSE "Ok"

ExtCall(pc, count, extension, lc, tc, chain_root, cells_root, calc, hash) ==
    [pc |-> pc, extra_fields_count |-> count, extension |-> extension,
     lc_activate |-> lc, tc_activate |-> tc, chain_root |-> chain_root,
     cells_root |-> cells_root, calc_extra_hash |-> calc,
     extra_hash |-> hash, result |-> "none"]

ExtVerify ==
    /\ ext.pc = "start"
    /\ ext' = [ext EXCEPT !.pc = "done", !.result = ext_verify(ext)]
    /\ UNCHANGED offExtensionVars

ExtIdle ==
    ext = ExtCall("idle", 0, <<>>, FALSE, FALSE, <<>>, <<>>, 1, 1)

\* Any block: without extra fields it has no extension, with extra fields
\* the extension is one of them.
ExtInit ==
    \E count \in 0 .. MaxExtraFields, lc \in BOOLEAN, tc \in BOOLEAN,
       chain_root \in RootResults, cells_root \in RootResults,
       calc \in RootValues, hash \in RootValues :
        \E extension \in IF count = 0 THEN {<<>>}
                         ELSE {<<x>> : x \in Extensions} :
            ext = ExtCall("start", count, extension, lc, tc, chain_root,
                          cells_root, calc, hash)

NextExtension ==
    \/ ExtVerify

\* ------------------------------------------- header index construction (A)

WARN_THRESHOLD == ITEM_BYTES_SIZE * 100000

MemoryLimits ==
    (0 .. MaxMemoryLimit)
        \cup {WARN_THRESHOLD - 1, WARN_THRESHOLD, WARN_THRESHOLD + 1}

\* Mutant: a memory_limit of exactly ITEM_BYTES_SIZE is too low as well.
HeaderMapNew_PanicsAtItemSize ==
    /\ hmnew.pc = "call"
    /\ hmnew' =
         IF hmnew.memory_limit <= ITEM_BYTES_SIZE
         THEN [hmnew EXCEPT !.pc = "panicked"]
         ELSE [hmnew EXCEPT
                 !.pc = "done",
                 !.warned = hmnew.memory_limit < WARN_THRESHOLD,
                 !.size_limit = <<hmnew.memory_limit \div ITEM_BYTES_SIZE>>,
                 !.task = TRUE]
    /\ UNCHANGED offNewVars

\* HeaderMap::new: panic on a limit below ITEM_BYTES_SIZE; else warn below
\* WARN_THRESHOLD, build the kernel (both tiers) with size_limit =
\* memory_limit / ITEM_BYTES_SIZE and spawn the limit_memory task.
\* size_limit is <<>> until the kernel exists.
HeaderMapNew ==
    /\ hmnew.pc = "call"
    /\ hmnew' =
         IF hmnew.memory_limit < ITEM_BYTES_SIZE
         THEN [hmnew EXCEPT !.pc = "panicked"]
         ELSE [hmnew EXCEPT
                 !.pc = "done",
                 !.warned = hmnew.memory_limit < WARN_THRESHOLD,
                 !.size_limit = <<hmnew.memory_limit \div ITEM_BYTES_SIZE>>,
                 !.task = TRUE]
    /\ UNCHANGED offNewVars

NewCall(memory_limit) ==
    [pc |-> "call", memory_limit |-> memory_limit, warned |-> FALSE,
     size_limit |-> <<>>, task |-> FALSE]

NewIdle == hmnew = [NewCall(ITEM_BYTES_SIZE) EXCEPT !.pc = "idle"]

NewInit == \E memory_limit \in MemoryLimits : hmnew = NewCall(memory_limit)

NextNew == HeaderMapNew

\* ------------------------------------------------------------ Close syscall

\* Values of register A7: the CLOSE syscall number and two others.
CLOSE == "CLOSE"

SyscallNumbers == {CLOSE, "PIPE", "WAIT"}

Fds == 0 .. MaxFd

VmIds == 0 .. MaxVmId

\* Message::Close(id, fd).
MessageClose(id, fd) == [kind |-> "Close", id |-> id, fd |-> fd]

\* machine.add_cycles_no_checking(c): the checked sum of the unsigned
\* counter, None (<<>>) on overflow.
add_cycles_no_checking(cycles, c) ==
    IF cycles + c > MaxCycleCount THEN <<>> ELSE <<cycles + c>>

\* Mutant: the message is pushed before the cycles are charged.
CloseEcall_PushFirst ==
    \E a7 \in SyscallNumbers, a0 \in Fds :
        /\ Len(message_box) < MaxMessages
        /\ LET charged == add_cycles_no_checking(sc.cycles, YieldCyclesBase)
           IN  IF a7 # CLOSE
               THEN /\ sc' = [sc EXCEPT !.a7 = a7, !.a0 = a0, !.ret = "false"]
                    /\ UNCHANGED message_box
               ELSE /\ message_box' = Append(message_box, MessageClose(sc.id, a0))
                    /\ IF charged = <<>>
                       THEN sc' = [sc EXCEPT !.a7 = a7, !.a0 = a0,
                                             !.ret = "CyclesOverflow"]
                       ELSE sc' = [sc EXCEPT !.a7 = a7, !.a0 = a0,
                                             !.cycles = charged[1],
                                             !.ret = "Yield"]
        /\ UNCHANGED offCloseVars

\* Close::ecall with the registers A7 and A0 as the VM set them.
CloseEcall ==
    \E a7 \in SyscallNumbers, a0 \in Fds :
        /\ Len(message_box) < MaxMessages
        /\ LET charged == add_cycles_no_checking(sc.cycles, YieldCyclesBase)
           IN  IF a7 # CLOSE
               THEN /\ sc' = [sc EXCEPT !.a7 = a7, !.a0 = a0, !.ret = "false"]
                    /\ UNCHANGED message_box
               ELSE IF charged = <<>>
               THEN /\ sc' = [sc EXCEPT !.a7 = a7, !.a0 = a0,
                                        !.ret = "CyclesOverflow"]
                    /\ UNCHANGED message_box
               ELSE /\ sc' = [sc EXCEPT !.a7 = a7, !.a0 = a0,
                                        !.cycles = charged[1], !.ret = "Yield"]
                    /\ message_box' = Append(message_box,
                                             MessageClose(sc.id, a0))
        /\ UNCHANGED offCloseVars

ScIdle ==
    /\ sc = [id |-> 0, a7 |-> "none", a0 |-> 0, cycles |-> 0, ret |-> "none"]
    /\ message_box = <<>>

\* A VM of any id whose machine has run any number of cycles; the message
\* box is empty or holds a message of another handler.
ScInit ==
    \E id \in VmIds, cycles \in 0 .. MaxCycleCount,
       box \in {<<>>, <<[kind |-> "Pipe", id |-> 0, fd |-> 0]>>} :
        /\ sc = [id |-> id, a7 |-> "none", a0 |-> 0, cycles |-> cycles,
                 ret |-> "none"]
        /\ message_box = box

NextClose == CloseEcall

\* ------------------------------------------------------------ specification

TruncateIdle == truncate_ch = <<>>

\* No submit has been called.
CallIdle ==
    /\ calls = [b \in DOMAIN attr |-> "none"]
    /\ blocking = [b \in DOMAIN attr |-> <<>>]

ChainInit ==
    /\ attr = [b \in Blocks |-> NoAttr]
    /\ pooled = {}
    /\ process_block_ch = <<>>
    /\ intake = [pc |-> "recv", cur |-> Genesis]
    /\ lonely_block_ch = <<>>
    /\ lonely_rx_alive = TRUE
    /\ orphan = <<>>
    /\ resolver = [pc |-> "recv", pending |-> <<>>]
    /\ unverified_ch = <<>>
    /\ unverified_tip = Genesis
    /\ best_tip = Genesis
    /\ commit_log = <<>>
    /\ consumer_pc = "run"
    /\ callbacks = [b \in Blocks |-> <<>>]
    /\ reports = {}
    /\ exit_signal = FALSE
    /\ svc_pc = "run"

Stages ==
    \/ ExitSignal
    \/ IntakeRecv
    \/ IntakeSend
    \/ IntakeExit
    \/ ResolverRecv
    \/ ResolverSend
    \/ ResolverSetTip
    \/ ResolverStop
    \/ ConsumerStep
    \/ ConsumerStop
    \/ JoinResolver
    \/ JoinConsumer

vars == <<chainVars, hmVars, codecVars, vqVars, btvVars, cbvVars, tpcVars,
          rwdVars, extVars, truncateVars, obpVars,
      hmnewVars,
      callVars,
      scVars>>

Init == ChainInit /\ HMInit /\ CodecIdle /\ VqInit /\ TxsIdle /\ CbvIdle /\ TpcIdle /\ RwdIdle /\ ExtIdle /\ TruncateIdle /\ ObpIdle /\ NewIdle /\ CallIdle /\ ScIdle

\* The whole pipeline over the block tree; every block comes from a peer
\* with no switch and is valid or contextually invalid.
Next ==
    \/ \E b \in Blocks, kind \in {"ok", "ctx_invalid"} :
          Submit(b, "none", TRUE, kind)
    \/ Stages

Spec == Init /\ [][Next]_vars

\* The pipeline over a short chain, with every switch and origin and with
\* the resolver possibly gone, for the intake stage's handling of a request.
NextIntake ==
    \/ \E b \in 1 .. MaxIntakeBlocks, sw \in Switches, peer \in BOOLEAN,
          kind \in {"ok", "malformed"} : Submit(b, sw, peer, kind)
    \/ Stages
    \/ ResolverGone

SpecIntake == Init /\ [][NextIntake]_vars

\* The pipeline with every kind of block and with the resolver possibly
\* gone, so that every outcome a callback can receive occurs.
NextOutcomes ==
    \/ \E b \in 1 .. (MaxBlocks - 1), kind \in Kinds :
          Submit(b, "none", TRUE, kind)
    \/ Stages
    \/ ResolverGone

SpecOutcomes == Init /\ [][NextOutcomes]_vars

\* The chain service as a whole: blocks 1 .. MaxServiceBlocks, all valid and
\* from a peer, submitted branch by branch (each block after its parent and
\* after its elder sibling's branch), with truncate requests and the exit
\* signal arriving at any time.
ServiceBlocks == 1 .. MaxServiceBlocks

RECURSIVE Preorder(_)
Preorder(b) ==
    IF b > MaxServiceBlocks THEN <<>>
    ELSE <<b>> \o Preorder(2 * b) \o Preorder(2 * b + 1)

ServiceOrder == Preorder(1)

ServiceInit ==
    /\ attr = [b \in ServiceBlocks |-> NoAttr]
    /\ pooled = {}
    /\ process_block_ch = <<>>
    /\ intake = [pc |-> "recv", cur |-> Genesis]
    /\ lonely_block_ch = <<>>
    /\ lonely_rx_alive = TRUE
    /\ orphan = <<>>
    /\ resolver = [pc |-> "recv", pending |-> <<>>]
    /\ unverified_ch = <<>>
    /\ unverified_tip = Genesis
    /\ best_tip = Genesis
    /\ commit_log = <<>>
    /\ consumer_pc = "run"
    /\ callbacks = [b \in ServiceBlocks |-> <<>>]
    /\ reports = {}
    /\ exit_signal = FALSE
    /\ svc_pc = "run"

InitService ==
    /\ ServiceInit /\ HMInit /\ CodecIdle /\ VqInit /\ TxsIdle /\ CbvIdle
    /\ TpcIdle /\ RwdIdle /\ ExtIdle /\ TruncateIdle /\ ObpIdle /\ NewIdle /\ CallIdle /\ ScIdle

NextService ==
    \/ \E i \in 1 .. Len(ServiceOrder) :
          /\ \A j \in 1 .. (i - 1) : attr[ServiceOrder[j]].accepted
          /\ Submit(ServiceOrder[i], "none", TRUE, "ok")
    \/ \E target \in {Genesis} \cup ServiceBlocks : TruncateCall(target)
    \/ ConsumerTruncate
    \/ Stages

SpecService == InitService /\ [][NextService]_vars

\* The same under fair scheduling: every worker that can take a step
\* eventually does; callers and the exit signal are under no obligation.
SpecServiceFair ==
    /\ SpecService
    /\ WF_vars(IntakeRecv) /\ WF_vars(IntakeSend) /\ WF_vars(IntakeExit)
    /\ WF_vars(ResolverRecv) /\ WF_vars(ResolverSend)
    /\ WF_vars(ResolverSetTip) /\ WF_vars(ResolverStop)
    /\ WF_vars(ConsumerStep) /\ WF_vars(ConsumerTruncate)
    /\ WF_vars(ConsumerStop)
    /\ WF_vars(JoinResolver) /\ WF_vars(JoinConsumer)

\* One caller submitting blocks 1, 2, .. one after the other, each call
\* blocking: valid and malformed blocks, the resolver possibly gone, the
\* exit signal arriving at any time.
NextCalls ==
    \/ \E b \in 1 .. MaxCallBlocks, kind \in {"ok", "malformed"} :
          /\ \A a \in 1 .. (b - 1) : calls[a] \in {"responded", "gone"}
          /\ calls[b] = "none"
          /\ Submit(b, "none", TRUE, kind)
    \/ Stages
    \/ ResolverGone
    \/ \E b \in 1 .. MaxCallBlocks : BlockingReturn(b)

SpecCalls == Init /\ [][NextCalls]_vars

\* The same under fair scheduling of the workers and of the caller's wait.
SpecCallsFair ==
    /\ SpecCalls
    /\ WF_vars(IntakeRecv) /\ WF_vars(IntakeSend) /\ WF_vars(IntakeExit)
    /\ WF_vars(ResolverRecv) /\ WF_vars(ResolverSend)
    /\ WF_vars(ResolverSetTip) /\ WF_vars(ResolverStop)
    /\ WF_vars(ConsumerStep) /\ WF_vars(ConsumerStop)
    /\ WF_vars(JoinResolver) /\ WF_vars(JoinConsumer)
    /\ \A b \in 1 .. MaxCallBlocks : WF_vars(BlockingReturn(b))

\* One removal from an orphan pool.
InitPool ==
    /\ ChainInit /\ HMInit /\ CodecIdle /\ VqInit /\ TxsIdle /\ CbvIdle
    /\ TpcIdle /\ RwdIdle /\ ExtIdle /\ TruncateIdle /\ ObpInit /\ NewIdle /\ CallIdle /\ ScIdle

SpecPool == InitPool /\ [][NextPool]_vars

\* The header index: one caller and the background mover.
SpecHM == Init /\ [][NextHM]_vars

\* The header index with the mover's runs in view: the caller inserts each
\* header as first seen (no skip_hash yet), reads and removes.
NextMover ==
    \/ \E h \in Hashes : ClientInsert(h, Inner(h, <<>>))
    \/ \E h \in Hashes : ClientGet(h)
    \/ \E h \in Hashes : ClientRemove(h)
    \/ ClientColdLookup
    \/ ClientColdRemove
    \/ MoverFrontN
    \/ MoverBackendInsert
    \/ MoverStoreFlag
    \/ MoverRemoveBatch

SpecMover == Init /\ [][NextMover]_vars

\* One record, any of Inners, encoded and decoded back.
InitCodec == ChainInit /\ HMInit /\ CodecInit /\ VqInit /\ TxsIdle /\ CbvIdle /\ TpcIdle /\ RwdIdle /\ ExtIdle /\ TruncateIdle /\ ObpIdle /\ NewIdle /\ CallIdle /\ ScIdle

SpecCodec == InitCodec /\ [][NextCodec]_vars

\* The verify queue under any sequence of calls.
SpecQueue == Init /\ [][NextQueue]_vars

\* One batch transaction verification and the cache update it spawns.
InitTxs == ChainInit /\ HMInit /\ CodecIdle /\ VqInit /\ TxsInit /\ CbvIdle /\ TpcIdle /\ RwdIdle /\ ExtIdle /\ TruncateIdle /\ ObpIdle /\ NewIdle /\ CallIdle /\ ScIdle

SpecTxs == InitTxs /\ [][NextTxs]_vars

\* One batch transaction verification with the cellbase and the cache's
\* recency order in view.
InitBatch == ChainInit /\ HMInit /\ CodecIdle /\ VqInit /\ BatchInit /\ CbvIdle /\ TpcIdle /\ RwdIdle /\ ExtIdle /\ TruncateIdle /\ ObpIdle /\ NewIdle /\ CallIdle /\ ScIdle

SpecBatch == InitBatch /\ [][NextTxs]_vars

\* One contextual verification of a block.
InitVerifier ==
    ChainInit /\ HMInit /\ CodecIdle /\ VqInit /\ TxsIdle /\ CbvInit /\ TpcIdle /\ RwdIdle /\ ExtIdle /\ TruncateIdle /\ ObpIdle /\ NewIdle /\ CallIdle /\ ScIdle

SpecVerifier == InitVerifier /\ [][NextVerifier]_vars

\* One two-phase commit check of a block.
InitCommit ==
    /\ ChainInit /\ HMInit /\ CodecIdle /\ VqInit /\ TxsIdle /\ CbvIdle
    /\ TpcInit /\ RwdIdle /\ ExtIdle /\ TruncateIdle /\ ObpIdle /\ NewIdle /\ CallIdle /\ ScIdle

SpecCommit == InitCommit /\ [][NextCommit]_vars

\* The same check over a store whose genesis block carries proposals.
InitWalk ==
    /\ ChainInit /\ HMInit /\ CodecIdle /\ VqInit /\ TxsIdle /\ CbvIdle
    /\ TpcGenesisInit /\ RwdIdle /\ ExtIdle /\ TruncateIdle /\ ObpIdle /\ NewIdle /\ CallIdle /\ ScIdle

SpecWalk == InitWalk /\ [][NextCommit]_vars

\* One reward check of a block.
InitReward ==
    /\ ChainInit /\ HMInit /\ CodecIdle /\ VqInit /\ TxsIdle /\ CbvIdle
    /\ TpcIdle /\ RwdInit /\ ExtIdle /\ TruncateIdle /\ ObpIdle /\ NewIdle /\ CallIdle /\ ScIdle

SpecReward == InitReward /\ [][NextReward]_vars

\* One block extension check of a block.
InitExtension ==
    /\ ChainInit /\ HMInit /\ CodecIdle /\ VqInit /\ TxsIdle /\ CbvIdle
    /\ TpcIdle /\ RwdIdle /\ ExtInit /\ TruncateIdle /\ ObpIdle /\ NewIdle /\ CallIdle /\ ScIdle

SpecExtension == InitExtension /\ [][NextExtension]_vars

\* One construction of the header index.
InitNew ==
    /\ ChainInit /\ HMInit /\ CodecIdle /\ VqInit /\ TxsIdle /\ CbvIdle
    /\ TpcIdle /\ RwdIdle /\ ExtIdle /\ TruncateIdle /\ ObpIdle /\ NewInit /\ CallIdle /\ ScIdle

SpecNew == InitNew /\ [][NextNew]_vars

\* Ecalls on the Close handler of one VM.
InitClose ==
    /\ ChainInit /\ HMInit /\ CodecIdle /\ VqInit /\ TxsIdle /\ CbvIdle
    /\ TpcIdle /\ RwdIdle /\ ExtIdle /\ TruncateIdle /\ ObpIdle /\ NewIdle /\ CallIdle /\ ScInit

SpecClose == InitClose /\ [][NextClose]_vars

\* ------------------------------------------------------- pipeline properties

\* b has passed the intake stage.
Downstream(b) ==
    \/ intake.pc = "send" /\ intake.cur = b
    \/ b \in Range(lonely_block_ch)
    \/ b \in Range(orphan)
    \/ b \in Range(resolver.pending)
    \/ b \in Range(unverified_ch)
    \/ b \in Range(commit_log)

\* This step is the intake worker taking request b off its channel.
IntakeTakes(b) ==
    /\ intake.pc = "recv"
    /\ process_block_ch # <<>>
    /\ Head(process_block_ch) = b
    /\ process_block_ch' = Tail(process_block_ch)
    /\ intake'.pc # "stopped"

\* This step is the intake worker's send of b failing on a closed channel.
IntakeSendFails(b) ==
    /\ intake.pc = "send"
    /\ intake.cur = b
    /\ ~lonely_rx_alive
    /\ intake' # intake

\* C1: no callback is invoked more than once, whatever the outcome
\* (accepted, rejected by the non-contextual checks, rejected by the
\* contextual checks, resolver channel closed, evicted, invalid descendant).
C1_CallbackAtMostOnce == \A b \in Blocks : Len(callbacks[b]) <= 1

\* C1 witness: one block was accepted, one rejected by the contextual
\* verifier and one met the closed resolver channel.
C1_Witness ==
    \E a, b, c \in Blocks :
        /\ callbacks[a] = <<"ok">>
        /\ callbacks[b] = <<"ctx_err">>
        /\ callbacks[c] = <<"system_err">>

\* C2 (as claimed): a block accepted into the intake channel is never
\* dropped without its callback having been invoked: it is still in the
\* pipeline, or its callback has fired.
C2_NoBlockDroppedUninvoked ==
    \A b \in Blocks :
        attr[b].accepted => InPipeline(b) \/ callbacks[b] # <<>>

\* C3: the commit of a parent precedes the commit of its child.
C3_ParentCommittedFirst ==
    \A i \in 1 .. Len(commit_log) :
        \/ Parent(commit_log[i]) = Genesis
        \/ \E j \in 1 .. (i - 1) : commit_log[j] = Parent(commit_log[i])

\* C3 witness: a child that arrived before its parent (it was pooled) and a
\* child that arrived after it are both committed, after their parent.
C3_Witness ==
    \E c, d \in Range(commit_log) :
        /\ c \in pooled /\ Parent(c) # Genesis
        /\ d \notin pooled /\ Parent(d) # Genesis

\* C4 (as claimed): unverified_tip.number >= best_tip.number in every state.
C4_UnverifiedTipNotBehind == Number(unverified_tip) >= Number(best_tip)

FailsIntakeChecks(b) ==
    /\ attr[b].accepted
    /\ attr[b].kind = "malformed"
    /\ attr[b].switch # "disable_non_contextual"

\* C6: a block failing the non-contextual checks is never forwarded, and the
\* step that takes it reports its peer, fires its callback with the
\* verification error and returns to the receive loop.
C6_IntakeRejects ==
    /\ [](\A b \in Blocks : FailsIntakeChecks(b) => ~Downstream(b))
    /\ [][\A b \in Blocks :
            IntakeTakes(b) /\ FailsIntakeChecks(b) =>
               /\ callbacks'[b] = <<"ncv_err">>
               /\ attr[b].peer => <<b, "ncv_err">> \in reports'
               /\ lonely_block_ch' = lonely_block_ch
               /\ intake'.pc = "recv"]_vars

\* C6 witness: a malformed block from a peer was rejected and reported.
C6_Witness ==
    \E b \in Blocks :
        /\ FailsIntakeChecks(b) /\ attr[b].peer
        /\ callbacks[b] = <<"ncv_err">>
        /\ <<b, "ncv_err">> \in reports

\* C7: a send into the closed resolver channel fires the block's callback
\* with a system error and the intake worker returns to its receive loop;
\* the worker stops only on the exit signal.
C7_ClosedChannelFatalToBlockOnly ==
    /\ [](intake.pc = "stopped" => exit_signal)
    /\ [][\A b \in Blocks :
            IntakeSendFails(b) =>
               /\ callbacks'[b] = <<"system_err">>
               /\ intake'.pc = "recv"]_vars

\* C7 witness: two blocks met the closed channel, the second after the
\* first had failed.
C7_Witness ==
    \E a, b \in Blocks :
        /\ a # b
        /\ callbacks[a] = <<"system_err">>
        /\ callbacks[b] = <<"system_err">>

\* C8: the step taking b runs the non-contextual checks exactly when b has
\* no switch or a switch without the opt-out flag: a malformed block is then
\* rejected, and every other block (in particular a malformed one with the
\* flag set) goes on to the send with no callback fired.
C8_SwitchDecidesIntakeChecks ==
    [][\A b \in Blocks :
         IntakeTakes(b) =>
            IF attr[b].switch \in {"none", "other"} /\ attr[b].kind = "malformed"
            THEN callbacks'[b] = <<"ncv_err">> /\ intake'.pc = "recv"
            ELSE /\ intake' = [pc |-> "send", cur |-> b]
                 /\ callbacks' = callbacks
                 /\ reports' = reports]_vars

\* C8 witness: a malformed block with the opt-out flag reached the resolver
\* channel.
C8_Witness ==
    \E b \in Blocks :
        /\ attr[b].kind = "malformed"
        /\ attr[b].switch = "disable_non_contextual"
        /\ b \in Range(lonely_block_ch)

\* ---------------------------------------------------- header index properties

\* C9 (as claimed): a get(h) that completes after insert(v) of h, with no
\* remove(h) in between, returns v.
C9_GetReturnsLastInserted ==
    (client.pc = "idle" /\ client.op = "get"
        /\ expect[client.hash].last = "inserted")
    => client.res = expect[client.hash].view

\* C10 (as claimed): a contains(h) or get(h) that completes after remove(h),
\* before the next insert of h, reports h absent.
C10_AbsentAfterRemove ==
    (client.pc = "idle" /\ expect[client.hash].last = "removed")
    => /\ client.op = "get" => client.res = Absent
       /\ client.op = "contains" => client.res = FALSE

VqCalls(op) == vq_last'.tick # vq_last.tick /\ vq_last'.op = op

\* C12: add_tx of an id already held returns false and leaves every entry
\* as it was (transaction, status, remote); add_tx of an id not held returns
\* true and stores one new entry, Fresh, with the transaction and remote
\* given, leaving the other entries as they were.
C12_AddRejectsDuplicates ==
    [][VqCalls("add_tx") =>
         LET tx == vq_last'.arg
             id == proposal_short_id(tx)
         IN  IF vq_inner[id] # <<>>
             THEN vq_last'.ret = FALSE /\ vq_inner' = vq_inner
             ELSE /\ vq_last'.ret = TRUE
                  /\ vq_inner'[id] = <<[status |-> "Fresh", tx |-> tx,
                                        remote |-> vq_last'.remote]>>
                  /\ \A o \in ShortIds \ {id} : vq_inner'[o] = vq_inner[o]]_vars

\* C12 witness: an add_tx of another transaction with the id of an entry
\* held, and another remote, has returned false.
C12_Witness ==
    /\ vq_last.op = "add_tx"
    /\ vq_last.ret = FALSE
    /\ vq_inner[proposal_short_id(vq_last.arg)][1].tx # vq_last.arg
    /\ vq_inner[proposal_short_id(vq_last.arg)][1].remote # vq_last.remote

\* C13 (as claimed): remove_tx of an id that is not in the queue does not
\* abort; it returns None and leaves the queue as it was.
C13_RemoveAbsentReturnsNone ==
    [][VqCalls("remove_tx") /\ vq_inner[vq_last'.arg] = <<>> =>
         /\ ~vq_panicked'
         /\ vq_last'.ret = <<>>
         /\ vq_inner' = vq_inner]_vars

\* C14: add_tx of a new id succeeds at any queue length, also past the
\* threshold, and drops nothing; is_full is true exactly when the queue
\* holds more than DEFAULT_MAX_VERIFY_TRANSACTIONS entries.
C14_FullnessOnlyReported ==
    /\ [](vq_last.op = "is_full" =>
            (vq_last.ret <=> vq_len(vq_inner) > DEFAULT_MAX_VERIFY_TRANSACTIONS))
    /\ [][VqCalls("add_tx") /\ vq_inner[proposal_short_id(vq_last'.arg)] = <<>>
            => /\ vq_last'.ret = TRUE
               /\ vq_len(vq_inner') = vq_len(vq_inner) + 1]_vars

\* C14 witness: the queue took an entry while past the threshold, and
\* is_full has reported so.
C14_Witness ==
    /\ vq_last.op = "is_full"
    /\ vq_last.ret = TRUE
    /\ vq_len(vq_inner) = DEFAULT_MAX_VERIFY_TRANSACTIONS + 2

\* ------------------------------------- batch transaction verification properties

\* Every transaction after the cellbase passed its verifier.
AllTxsPass == \A i \in 1 .. Len(btv.resolved) : btv.outcome[i].ok

\* The cycles summed over the transactions after the cellbase.
RECURSIVE OutcomeCycles(_)
OutcomeCycles(n) ==
    IF n = 0 THEN 0 ELSE btv.outcome[n].cycles + OutcomeCycles(n - 1)

\* C15: an accepted block's transactions after the cellbase sum to at most
\* consensus.max_block_cycles, the sum being the cycles reported; when
\* every transaction passes and the sum is larger, the call fails with
\* ExceededMaximumCycles.
C15_CyclesBound ==
    btv.pc = "done" =>
       /\ btv.result.kind = "Ok" =>
             /\ Len(btv.result.completed) = Len(btv.resolved)
             /\ SumCycles(btv.result.completed) <= MaxBlockCycles
             /\ btv.result.cycles = OutcomeCycles(Len(btv.resolved))
       /\ (AllTxsPass /\ OutcomeCycles(Len(btv.resolved)) > MaxBlockCycles)
             => btv.result.kind = "ExceededMaximumCycles"

\* C15 witness: a block of MaxTxs transactions was accepted with exactly
\* the maximum.
C15_Witness ==
    /\ btv.pc = "done"
    /\ btv.result.kind = "Ok"
    /\ Len(btv.resolved) = MaxTxs
    /\ btv.result.cycles = MaxBlockCycles

\* C16 (as claimed): after a rejection with ExceededMaximumCycles the cache
\* holds what it held before the verification started.
C16_NoCacheUpdateOnOverrun ==
    btv.result.kind = "ExceededMaximumCycles" =>
       txs_verify_cache = btv.cache_before

\* C17: in an accepted block, a transaction that was in the cache as
\* Completed with c cycles is reported with c cycles, and only the
\* time-relative verifier ran for it.
C17_CachedCyclesReported ==
    btv.result.kind = "Ok" =>
       \A i \in 1 .. Len(btv.resolved) :
          (/\ btv.cache_before[i] # <<>>
           /\ btv.cache_before[i][1].kind = "Completed")
          => /\ btv.result.completed[i].cycles = btv.cache_before[i][1].cycles
             /\ btv.outcome[i].ran = "time_relative"

\* C17 witness: an accepted block holds a cached transaction whose full
\* verification would have failed, and one whose full verification would
\* have reported other cycles.
C17_Witness ==
    /\ btv.result.kind = "Ok"
    /\ \E i, j \in 1 .. Len(btv.resolved) :
          /\ btv.cache_before[i] = <<Completed(1)>>
          /\ btv.resolved[i].contextual = <<>>
          /\ btv.cache_before[j] = <<Completed(1)>>
          /\ btv.resolved[j].contextual \in {<<c>> : c \in Cycles \ {1}}

\* --------------------------------------- contextual block verifier properties

\* C18 (as claimed): a sub-check among epoch, uncles, two-phase commit, DAO
\* header, reward and block extension whose opt-out flag is set is not run,
\* and the block is not rejected by it.
C18_SwitchSkipsSubChecks ==
    \A check \in {"epoch", "uncles", "two_phase_commit", "daoheader",
                  "reward", "extension"} :
        check \in cbv.switch => check \notin Range(cbv.ran) /\ cbv.result # check

\* The sub-checks in the order the claim gives them.
CheckOrder ==
    <<"epoch", "uncles", "two_phase_commit", "daoheader", "reward",
      "extension", "txs">>

\* The sub-checks the switch of this call leaves on, in that order.
ChecksOn ==
    LET On(check) == check \in {"extension", "txs"} \/ check \notin cbv.switch
    IN  SelectSeq(CheckOrder, On)

\* The first of ChecksOn that fails, or one past the last.
FirstFailing ==
    LET Failing == {i \in 1 .. Len(ChecksOn) : ChecksOn[i] \in cbv.fails}
    IN  IF Failing = {} THEN Len(ChecksOn) + 1
        ELSE CHOOSE i \in Failing : \A j \in Failing : i <= j

\* C23: the sub-checks that run do so in the order epoch, uncles, two-phase
\* commit, DAO header, reward, block extension, batch transaction
\* verification; the call returns the error of the first one that fails and
\* runs none after it, so a block failing several is rejected with the
\* error of the earliest.
C23_FixedOrderFirstError ==
    /\ Len(cbv.ran) <= Len(ChecksOn)
    /\ \A i \in 1 .. Len(cbv.ran) : cbv.ran[i] = ChecksOn[i]
    /\ Len(cbv.ran) <= FirstFailing
    /\ (cbv.pc = "done" /\ cbv.parent = "found") =>
          IF FirstFailing > Len(ChecksOn)
          THEN cbv.result = "Ok" /\ cbv.ran = ChecksOn
          ELSE /\ cbv.result = ChecksOn[FirstFailing]
               /\ Len(cbv.ran) = FirstFailing

\* A block failing the uncles check and the reward check is rejected with
\* the uncles error after the epoch and uncles checks only.
C23_Witness ==
    /\ cbv.pc = "done"
    /\ cbv.switch = {}
    /\ cbv.fails = {"uncles", "reward"}
    /\ cbv.result = "uncles"
    /\ cbv.ran = <<"epoch", "uncles">>

\* ------------------------------------------------ two-phase commit properties

\* The numbers of the proposal window of the block verified, number -
\* farthest to number - closest, neither below 0.
ProposalWindow ==
    {h \in Heights : /\ h >= saturating_sub(tpc.number, ProposalFarthest)
                     /\ h <= saturating_sub(tpc.number, ProposalClosest)}

NoRewardOutput ==
    \/ rwd.parent_number + 1 <= FinalizationDelayLength
    \/ rwd.reward[1].total < rwd.reward[1].target_lock

\* C20 (as claimed): with the reward computed, the block passes exactly
\* when the cellbase has no outputs (no target, or reward too small), or
\* else has an output of exactly the total reward with the target lock.
C20_RewardAsClaimed ==
    (rwd.pc = "done" /\ rwd.reward # <<>>) =>
       (rwd.result = "Ok" <=>
          IF NoRewardOutput
          THEN rwd.outputs = <<>>
          ELSE \E i \in 1 .. Len(rwd.outputs) :
                  /\ rwd.outputs[i].capacity = rwd.reward[1].total
                  /\ rwd.outputs[i].lock = rwd.reward[1].target_lock)

\* --------------------------------------------- block extension check properties

\* C21: the block extension check rejects a block with more than one extra
\* field, a block without extension while LightClient or CellsCommitments is
\* active, an empty extension, an extension of more than 96 bytes, one of
\* fewer than 32 bytes while exactly one deployment is active and one of
\* fewer than 64 bytes while both are; an accepted block's recomputed
\* extra_hash equals the header's.
C21_ExtensionRejections ==
    ext.pc = "done" =>
       LET rejected == ext.result # "Ok"
           has == ext.extension # <<>>
           len == ext.extension[1].len
       IN  /\ ext.extra_fields_count > 1 => rejected
           /\ (~has /\ (ext.lc_activate \/ ext.tc_activate)) => rejected
           /\ (has /\ len = 0) => rejected
           /\ (has /\ len > 96) => rejected
           /\ (has /\ len < 32 /\ ext.lc_activate # ext.tc_activate)
                 => rejected
           /\ (has /\ len < 64 /\ ext.lc_activate /\ ext.tc_activate)
                 => rejected
           /\ ~rejected => ext.calc_extra_hash = ext.extra_hash

\* A 64 byte extension is accepted with both deployments active.
C21_Witness ==
    /\ ext.pc = "done"
    /\ ext.result = "Ok"
    /\ ext.lc_activate /\ ext.tc_activate
    /\ ext.extension # <<>>
    /\ ext.extension[1].len = 64

\* ------------------------------------------- rejection in the consumer stage

\* The consumer takes b from its queue and does not commit it.
ConsumerRejects(b) ==
    /\ consumer_pc = "run"
    /\ unverified_ch # <<>>
    /\ Head(unverified_ch) = b
    /\ unverified_ch' = Tail(unverified_ch)
    /\ commit_log' = commit_log

\* The pooled descendants of b: linked to b through pooled blocks.
PoolDescendants(pool, b) ==
    {d \in Range(pool) :
        /\ b \in Ancestors(Parent(d))
        /\ (Ancestors(Parent(d)) \ Ancestors(b)) \subseteq Range(pool)}

\* The consumer rejected b: its callback got a verification error.
Rejected(b) ==
    \E i \in 1 .. Len(callbacks[b]) :
        callbacks[b][i] \in {"ctx_err", "invalid_descendant"}

C24_ChannelsBounded ==
    /\ [](/\ Len(lonely_block_ch) <= BLOCK_DOWNLOAD_WINDOW
          /\ Len(unverified_ch) <= 3 * BLOCK_DOWNLOAD_WINDOW
          /\ Len(truncate_ch) <= 1)
    /\ [][/\ (/\ intake.pc = "send"
              /\ lonely_rx_alive
              /\ Len(lonely_block_ch) = BLOCK_DOWNLOAD_WINDOW)
                 => /\ intake' = intake
                    /\ callbacks'[intake.cur] = callbacks[intake.cur]
          /\ (/\ resolver.pc = "send"
              /\ Len(unverified_ch) = 3 * BLOCK_DOWNLOAD_WINDOW)
                 => /\ resolver' = resolver
                    /\ callbacks'[Head(resolver.pending)]
                          = callbacks[Head(resolver.pending)]
         ]_vars

\* Every channel is full and both upstream workers wait with a block.
C24_Witness ==
    /\ intake.pc = "send"
    /\ Len(lonely_block_ch) = BLOCK_DOWNLOAD_WINDOW
    /\ resolver.pc = "send"
    /\ Len(unverified_ch) = 3 * BLOCK_DOWNLOAD_WINDOW
    /\ Len(truncate_ch) = 1

\* The ChainService thread has signalled the resolver to stop.
ResolverSignalled == svc_pc \in {"join_resolver", "join_consumer", "done"}

\* The ChainService thread has signalled the consumer to stop.
ConsumerSignalled == svc_pc \in {"join_consumer", "done"}

\* C25: on shutdown the intake stage stops first and sends nothing more to
\* the resolver; the resolver is signalled after that and has terminated
\* before the consumer is signalled; the consumer terminates last.
C25_ShutdownOrder ==
    /\ [](/\ ResolverSignalled => intake.pc = "stopped"
          /\ resolver.pc = "stopped" => ResolverSignalled
          /\ ConsumerSignalled => resolver.pc = "stopped"
          /\ consumer_pc = "stopped" => ConsumerSignalled
          /\ svc_pc = "done" => consumer_pc = "stopped")
    /\ [][intake.pc = "stopped" =>
             Len(lonely_block_ch') <= Len(lonely_block_ch)]_vars

\* The service has shut down after committing blocks.
C25_Witness ==
    /\ svc_pc = "done"
    /\ intake.pc = "stopped"
    /\ resolver.pc = "stopped"
    /\ consumer_pc = "stopped"
    /\ commit_log # <<>>

\* Intake, resolver and consumer have all terminated.
AllStopped ==
    /\ intake.pc = "stopped"
    /\ resolver.pc = "stopped"
    /\ consumer_pc = "stopped"

\* C26: once the exit signal is raised, intake, resolver and consumer all
\* eventually terminate, whatever the channels hold at that moment.
C26_ShutdownTerminates == exit_signal ~> AllStopped

\* The exit signal is up while the intake worker waits on the full resolver
\* channel and the resolver waits on the full consumer channel.
C26_Witness ==
    /\ exit_signal
    /\ intake.pc = "send"
    /\ Len(lonely_block_ch) = BLOCK_DOWNLOAD_WINDOW
    /\ resolver.pc = "send"
    /\ Len(unverified_ch) = 3 * BLOCK_DOWNLOAD_WINDOW

\* ------------------------------------------------------- resolver routing

\* The resolver takes b from its inbox.
ResolverTakes(b) ==
    /\ resolver.pc = "recv"
    /\ lonely_rx_alive /\ lonely_rx_alive'
    /\ lonely_block_ch # <<>>
    /\ Head(lonely_block_ch) = b
    /\ lonely_block_ch' = Tail(lonely_block_ch)

\* s lists each parent before its children.
ParentsFirst(s) ==
    \A i, j \in 1 .. Len(s) : s[i] = Parent(s[j]) => i < j

\* C27: a block whose parent is neither in the store nor in the
\* unverified-tip chain goes into the orphan pool, its callback is not
\* fired and nothing is forwarded; any other block is forwarded, followed
\* by its pooled descendants, which leave the pool.  A block that waited in
\* the pool and was committed comes after its parent in the store, and both
\* callbacks succeeded.
C27_ResolverRouting ==
    /\ [][\A b \in Blocks : ResolverTakes(b) =>
            IF Parent(b) \notin Store /\ Parent(b) \notin Ancestors(unverified_tip)
            THEN /\ b \in Range(orphan')
                 /\ callbacks'[b] = callbacks[b]
                 /\ resolver' = resolver
                 /\ unverified_ch' = unverified_ch
            ELSE /\ resolver'.pc = "send"
                 /\ Head(resolver'.pending) = b
                 /\ Range(Tail(resolver'.pending)) = PoolDescendants(orphan, b)
                 /\ Len(resolver'.pending) = 1 + Cardinality(PoolDescendants(orphan, b))
                 /\ ParentsFirst(resolver'.pending)
                 /\ Range(orphan') = Range(orphan) \ PoolDescendants(orphan, b)
                 /\ callbacks' = callbacks
         ]_vars
    /\ [](\A i \in 1 .. Len(commit_log) :
             LET c == commit_log[i] IN
             (c \in pooled /\ Parent(c) # Genesis) =>
                 /\ \E j \in 1 .. (i - 1) : commit_log[j] = Parent(c)
                 /\ callbacks[c] = <<"ok">>
                 /\ callbacks[Parent(c)] = <<"ok">>)

\* Block 2 arrived before its parent 1 and waited in the pool; both are
\* committed, 1 first, and both callbacks succeeded.
C27_Witness ==
    /\ 2 \in pooled
    /\ commit_log = <<1, 2>>
    /\ best_tip = 2
    /\ callbacks[1] = <<"ok">>
    /\ callbacks[2] = <<"ok">>

\* ---------------------------------------------------- orphan pool properties

\* i comes before j in s.
Before(s, a, b) ==
    \E i, j \in 1 .. Len(s) : s[i] = a /\ s[j] = b /\ i < j

\* C28: remove_blocks_by_parent(p) returns exactly the pooled blocks that
\* descend from p through the pool, each once, a parent before its children
\* and siblings in the order they were inserted; those blocks leave the pool
\* and every other block stays where it was.
C28_RemoveByParent ==
    obp.pc = "done" =>
       /\ Range(obp.removed) = PoolDescendants(obp.pool, obp.parent_hash)
       /\ Cardinality(Range(obp.removed)) = Len(obp.removed)
       /\ ParentsFirst(obp.removed)
       /\ \A a, b \in Range(obp.removed) :
             (Parent(a) = Parent(b) /\ Before(obp.pool, a, b))
                => Before(obp.removed, a, b)
       /\ LET Stays(x) == x \notin PoolDescendants(obp.pool, obp.parent_hash)
          IN  obp.left = SelectSeq(obp.pool, Stays)

\* From the pool 5, 3, 4, 8 the descendants of 2 are removed: its children
\* 5 and 4 in insertion order, then 4's child 8; block 3 stays.
C28_Witness ==
    /\ obp.pc = "done"
    /\ obp.parent_hash = 2
    /\ obp.pool = <<5, 3, 4, 8>>
    /\ obp.removed = <<5, 4, 8>>
    /\ obp.left = <<3>>

\* ----------------------------------------------------------- best tip rule

\* The consumer takes b from its queue and commits it.
ConsumerCommits(b) ==
    /\ consumer_pc = "run"
    /\ unverified_ch # <<>>
    /\ Head(unverified_ch) = b
    /\ unverified_ch' = Tail(unverified_ch)
    /\ commit_log' = Append(commit_log, b)

\* The consumer serves a truncate request.
ConsumerTruncates ==
    /\ truncate_ch # <<>>
    /\ truncate_ch' = Tail(truncate_ch)

\* C29: a verified block becomes best_tip when its parent is best_tip or
\* its total difficulty is strictly greater than best_tip's; otherwise it is
\* persisted and best_tip stays.  Except when a truncate request is served,
\* best_tip's total difficulty never decreases.
C29_BestTipRule ==
    /\ [][\A b \in ServiceBlocks : ConsumerCommits(b) =>
            best_tip' =
               IF \/ Parent(b) = best_tip
                  \/ TotalDifficulty(b) > TotalDifficulty(best_tip)
               THEN b ELSE best_tip
         ]_vars
    /\ [][\/ ConsumerTruncates
          \/ TotalDifficulty(best_tip') >= TotalDifficulty(best_tip)]_vars

\* Blocks 1, 2 and 4 extended the chain, 5 took over with more total
\* difficulty, 3 and 6 (a tie) were persisted as side branches.
C29_Witness ==
    /\ commit_log = <<1, 2, 4, 5, 3, 6>>
    /\ best_tip = 5
    /\ TotalDifficulty(6) = TotalDifficulty(5)

\* ------------------------------------------------------ header index tiers

\* C30 (as claimed): in every state of the header index no hash has an
\* entry in the hot tier and an entry in the cold tier.
C30_OneEntryPerHash ==
    \A h \in Hashes : ~(memory_contains_key(hot, h) /\ backend_contains_key(cold, h))

\* ------------------------------------------------- header index mover run

HotKeys(map) == {map[i][1] : i \in 1 .. Len(map)}

\* The hot tier's entries from position from on (the most recently used).
HotSuffix(map, from) == SubSeq(map, from, Len(map))

\* The last lookup was a get that found its hash in the hot tier.
LastGetHitHot ==
    /\ client.pc = "idle"
    /\ client.op = "get"
    /\ client.res # Absent
    /\ memory_contains_key(hot, client.hash)

\* C31: a run of the mover starts only when the hot tier holds more than
\* size_limit entries, and then selects exactly the Len(hot) - size_limit
\* entries at the least recently used end, leaving the size_limit most
\* recently used unselected; an entry just read by get is selected only
\* when every other entry is; the run writes exactly the selected entries
\* to the cold tier, and takes exactly the selected keys out of the hot
\* tier, the other entries keeping their order.  With size_limit or fewer
\* entries in the hot tier the mover stays idle and nothing is written to
\* the cold tier.
C31_MoverMovesOldest ==
    [][/\ (mover.pc = "idle" /\ Len(hot) <= size_limit) =>
              /\ mover' = mover
              /\ \A h \in Hashes : cold'[h] # cold[h] => cold'[h] = <<>>
       /\ (mover.pc = "idle" /\ mover'.pc = "insert") =>
              /\ Len(hot) > size_limit
              /\ Len(mover'.values) = Len(hot) - size_limit
              /\ mover'.values \o HotSuffix(hot, Len(hot) - size_limit + 1) = hot
              /\ Len(HotSuffix(hot, Len(hot) - size_limit + 1)) = size_limit
              /\ LastGetHitHot =>
                    (client.hash \in HotKeys(mover'.values)
                        => HotKeys(hot) \subseteq HotKeys(mover'.values))
       /\ (mover.pc = "insert" /\ mover'.pc = "flag") =>
              \A h \in Hashes :
                  IF h \in HotKeys(mover.values)
                  THEN \E i \in 1 .. Len(mover.values) :
                          /\ mover.values[i][1] = h
                          /\ cold'[h] = to_vec(mover.values[i][2])
                  ELSE cold'[h] = cold[h]
       /\ (mover.pc = "remove_batch" /\ mover'.pc = "idle") =>
              /\ HotKeys(hot') = HotKeys(hot) \ HotKeys(mover.values)
              /\ \A i \in 1 .. Len(hot') : \E j \in 1 .. Len(hot) : hot'[i] = hot[j]
              /\ \A i, j \in 1 .. Len(hot') :
                    i < j => HotIndex(hot, hot'[i][1]) < HotIndex(hot, hot'[j][1])
      ]_vars

\* C31 witness: hash 1 was read by get and so sits at the most recently
\* used end; the mover has selected the other entry, hash 2, and not it.
C31_Witness ==
    /\ mover.pc = "insert"
    /\ client.pc = "idle"
    /\ client.op = "get"
    /\ client.hash = 1
    /\ client.res # Absent
    /\ HotKeys(mover.values) = {2}
    /\ Len(hot) = size_limit + 1
    /\ hot[Len(hot)][1] = 1

\* -------------------------------------------- header index construction

\* C32: HeaderMap::new with a memory_limit below 152 panics, with no kernel
\* (no tier) built and no task spawned; with a memory_limit of 152 or more it
\* does not panic, and the kernel's size_limit is floor(memory_limit / 152),
\* which is at least 1.
C32_LowLimitPanics ==
    hmnew.pc \in {"panicked", "done"} =>
        IF hmnew.memory_limit < 152
        THEN /\ hmnew.pc = "panicked"
             /\ hmnew.size_limit = <<>>
             /\ ~hmnew.task
        ELSE /\ hmnew.pc = "done"
             /\ hmnew.task
             /\ \E k \in 1 .. hmnew.memory_limit :
                   /\ hmnew.size_limit = <<k>>
                   /\ k * 152 <= hmnew.memory_limit
                   /\ hmnew.memory_limit < (k + 1) * 152

\* C32 witness: a header index built with a limit of 152 bytes, the lowest
\* that does not panic; its capacity is one entry.
C32_Witness ==
    /\ hmnew.pc = "done"
    /\ hmnew.memory_limit = 152
    /\ hmnew.size_limit = <<1>>

\* --------------------------------------------- cellbase in the batch verifier

\* C33: the cellbase's hash is not among the keys looked up in the cache,
\* no update_cache task carries it and the cache never holds it; an accepted
\* block's list has one entry per transaction after the cellbase and its
\* cycles are the sum over those transactions alone; a block of the cellbase
\* alone is accepted with zero cycles and an empty list, without a lookup
\* and without an update_cache task.
C33_CellbaseSkipped ==
    /\ 0 \notin Range(btv.keys)
    /\ \A fetched_hash \in CacheHashes :
          btv.fetched[fetched_hash] # <<>> => fetched_hash # 0
    /\ txs_verify_cache[0] = <<>>
    /\ 0 \notin Range(cache_lru)
    /\ \A t \in 1 .. Len(cache_tasks) :
          \A j \in 1 .. Len(cache_tasks[t]) : cache_tasks[t][j][1] # 0
    /\ (btv.pc = "done" /\ btv.result.kind = "Ok") =>
          /\ Len(btv.result.completed) = Len(btv.resolved)
          /\ btv.result.cycles = OutcomeCycles(Len(btv.resolved))
    /\ (btv.pc \in {"fetched", "done"} /\ btv.resolved = <<>>) =>
          /\ btv.lookups = 0
          /\ btv.keys = <<>>
          /\ cache_tasks = <<>>
          /\ txs_verify_cache = btv.cache_before
    /\ (btv.pc = "done" /\ btv.resolved = <<>>) =>
          btv.result = [kind |-> "Ok", index |-> 0, cycles |-> 0,
                        completed |-> <<>>]

\* C33 witness: a block of a cellbase whose own verification fails and of
\* MaxTxs transactions was accepted, the cache written.
C33_Witness ==
    /\ btv.pc = "done"
    /\ btv.result.kind = "Ok"
    /\ btv.cellbase.contextual = <<>>
    /\ Len(btv.resolved) = MaxTxs
    /\ btv.result.cycles > 0
    /\ cache_tasks = <<>>
    /\ txs_verify_cache # btv.cache_before

\* The transactions after the cellbase whose verification failed, by their
\* index in the block.
FailedTxs == {i \in 1 .. Len(btv.resolved) : ~btv.outcome[i].ok}

\* C34: when the verification of a transaction after the cellbase fails,
\* the call returns a BlockTransactionsError whose index is the block index
\* of a transaction that failed (1 or more), no update_cache task is
\* spawned and the cache is as it was before the call.
C34_FailureIndexNoCacheWrite ==
    (btv.pc = "done" /\ FailedTxs # {}) =>
        /\ btv.result.kind = "BlockTransactionsError"
        /\ btv.result.index >= 1
        /\ btv.result.index \in FailedTxs
        /\ cache_tasks = <<>>
        /\ txs_verify_cache = btv.cache_before

\* C34 witness: the last transaction of a block of MaxTxs failed alone,
\* while the cellbase's own verification failed as well.
C34_Witness ==
    /\ btv.pc = "done"
    /\ Len(btv.resolved) = MaxTxs
    /\ FailedTxs = {MaxTxs}
    /\ btv.cellbase.contextual = <<>>
    /\ btv.result.index = MaxTxs

\* C35: the lookup of fetched_cache leaves the cache's entries and their
\* recency order as they were.
C35_LookupLeavesCache ==
    [][(btv.pc = "start" /\ btv'.pc = "fetched") =>
          /\ txs_verify_cache' = txs_verify_cache
          /\ cache_lru' = cache_lru]_vars

\* C35 witness: the lookup found two entries and the one looked up first
\* is still the more recently used.
C35_Witness ==
    /\ btv.pc = "fetched"
    /\ btv.lookups = 1
    /\ Len(btv.keys) >= 2
    /\ btv.fetched[btv.keys[1]] # <<>>
    /\ btv.fetched[btv.keys[2]] # <<>>
    /\ Len(cache_lru) >= 2
    /\ cache_lru[Len(cache_lru)] = btv.keys[1]

\* ------------------------------------------------- the caller's side of a submit

\* The intake stage has finished with b: rejected it with its callback
\* fired, or placed it in the resolver channel as the last entry.
IntakeFinished(b) ==
    \/ callbacks[b] \in {<<"ncv_err">>, <<"system_err">>}
    \/ /\ lonely_block_ch # <<>>
       /\ lonely_block_ch[Len(lonely_block_ch)] = b

\* C36 (as claimed): whenever a call of the asynchronous submit returns,
\* the intake stage has just finished with the block.
C36_ReturnsOnlyAfterHandled ==
    [][\A b \in Blocks :
          (calls'[b] # calls[b] /\ calls'[b] \in {"responded", "gone"})
              => IntakeFinished(b)']_vars

\* C36 (amended): a call that returns with the service's response returns
\* when the intake stage has just finished with the block, and waits while
\* the intake stage holds the block in front of a full resolver channel; a
\* call returns without a response only when the intake stage has stopped,
\* the block then in no stage of the pipeline.  Blocks submitted one after
\* the other enter the resolver channel in that order: when one enters,
\* every block before it has been through its call and none after it has
\* been submitted.
C36_ReturnsAfterHandledOrGone ==
    [][\A b \in Blocks :
          /\ (calls[b] = "waiting" /\ calls'[b] = "responded")
                => IntakeFinished(b)'
          /\ (calls'[b] # calls[b] /\ calls'[b] = "gone")
                => /\ intake'.pc = "stopped"
                   /\ ~InPipeline(b)'
          /\ (calls[b] = "none" /\ calls'[b] = "responded") => FALSE
          /\ (intake'.pc = "send" /\ intake'.cur = b) => calls'[b] = "waiting"
          /\ (b \notin Range(lonely_block_ch) /\ b \in Range(lonely_block_ch'))
                => /\ \A a \in 1 .. (b - 1) : calls'[a] \in {"responded", "gone"}
                   /\ \A c \in (b + 1) .. MaxBlocks : calls'[c] = "none"
      ]_vars

\* C36 witness: block 1 is in the resolver channel, its call returned; the
\* channel is full, the intake stage holds block 2 and its caller waits.
C36_Witness ==
    /\ calls[1] = "responded"
    /\ lonely_block_ch = <<1>>
    /\ Len(lonely_block_ch) = LonelyChannelBound
    /\ intake = [pc |-> "send", cur |-> 2]
    /\ calls[2] = "waiting"

\* C37 (as claimed): every blocking submit returns.
C37_BlockingAlwaysReturns ==
    \A b \in Blocks : (calls[b] # "none") ~> (blocking[b] # <<>>)

\* C37 (amended): a blocking submit returns exactly the result its callback
\* was invoked with, or a System error when the callback was dropped
\* uninvoked, and in both cases it does return; it does not return while
\* the block waits in the pipeline with its callback unfired.
C37_BlockingReturnsResultOrError ==
    /\ [](\A b \in Blocks :
            blocking[b] # <<>> =>
               \/ callbacks[b] = blocking[b]
               \/ /\ blocking[b] = <<"recv_err">>
                  /\ callbacks[b] = <<>>
                  /\ ~InPipeline(b))
    /\ \A b \in Blocks :
          (calls[b] \in {"responded", "gone"}
              /\ (callbacks[b] # <<>> \/ CallbackDropped(b)))
          ~> (blocking[b] # <<>>)

\* C37 witness: one blocking submit returned the verification's result,
\* another the System error for a request the stopping service dropped.
C37_Witness ==
    /\ blocking[1] = <<"ok">>
    /\ callbacks[1] = <<"ok">>
    /\ blocking[2] = <<"recv_err">>
    /\ calls[2] = "gone"
    /\ callbacks[2] = <<>>

\* ------------------------------------------- the ancestor walk and genesis

\* The ancestors the walk reads before it ends: from number - closest down
\* to number - farthest, or down to the first header the store lacks.
WalkedHeights ==
    {h \in ProposalWindow :
        \A g \in ProposalWindow : g >= h => g # tpc.no_header}

\* C38: for every block number >= 1 the walk over the ancestors ends at the
\* genesis header: the ids it gathers are those of the walked ancestors
\* other than genesis, whatever the genesis block proposes, and the walked
\* number is never decremented below zero.
C38_WalkStopsAtGenesis ==
    (tpc.pc = "done" /\ tpc.number >= 1 /\ tpc.walked) =>
       /\ ~tpc.underflow
       /\ tpc.ids = UNION {tpc.proposals[h] \cup tpc.uncle_proposals[h] :
                              h \in WalkedHeights \ {0}}

\* C38 witness: the window of block 1 reaches down to genesis, which
\* proposes the id committed; the walk gathered nothing and the block is
\* rejected.
C38_Witness ==
    /\ tpc.pc = "done"
    /\ tpc.walked
    /\ tpc.number = 1
    /\ 0 \in WalkedHeights
    /\ tpc.proposals[0] = {1}
    /\ tpc.uncle_proposals[0] = {2}
    /\ tpc.committed = {1}
    /\ tpc.ids = {}
    /\ tpc.result = "Invalid"

\* ------------------------------------------------------- Close syscall effect

C40_FlagTrueMeansColdEmpty ==
    empty_flag => backend_db_is_empty(cold)

====
